---- MODULE Spec2Model ----
(***************************************************************************)
(* A model of useShellCommandProcessor                                     *)
(* (packages/cli/src/ui/hooks/shellCommandProcessor.ts): the foreground     *)
(* shell execution (handleShellCommand / executeCommand), the background    *)
(* shell registry (registerBackgroundShell, dismissBackgroundShell,         *)
(* toggleBackgroundShell, backgroundCurrentShell) and the listeners the     *)
(* hook installs on ShellExecutionService.                                  *)
(*                                                                         *)
(* JavaScript runs every handler to completion, so each action is one whole *)
(* handler invocation, or one continuation of executeCommand between two    *)
(* awaits.  ShellExecutionService and the hook's callers are not part of    *)
(* the hook.  They are modelled as an environment that may call, deliver    *)
(* events, report exits and resolve results in any order, under these       *)
(* assumptions taken from the data model of the specification:              *)
(*   - a pid names one process and is not given to a second one;            *)
(*   - one command is executed in the foreground at a time;                 *)
(*   - registerBackgroundShell is called for the shells of tool calls,      *)
(*     handleShellCommand registers its own child when it is backgrounded.  *)
(***************************************************************************)
EXTENDS Integers, Sequences, FiniteSets, Bags, TLC

\* ------------------------------------------------------------------ bounds
MaxProc  == 2   \* commands run: executions started plus tool shells spawned
MaxOut   == 2   \* characters of text the foreground callback accumulates
MaxRegs  == 2   \* times registerBackgroundShell installs listeners for one pid
MaxInfo  == 1   \* 'No background shells' info items toggle adds
MaxPids  == 3   \* processes the service spawns
MaxAdds  == 2   \* entries added to the model history on their own
MaxItems == 3   \* items the skills command adds to the UI
MaxRuns  == 3   \* executions of ActivateSkill invocations
MaxHooks == 3   \* hooks active at a time

\* ---------------------------------------------------------------- domains
NoPid      == 0     \* null / undefined pid
NoExitCode == -1    \* exitCode absent (undefined / null)
NoSignal   == 0     \* result.signal is null
NoError    == ""    \* result.error is null

Pids  == 1..MaxPids
Execs == 1..MaxProc

\* string | AnsiOutput: t says which representation v is in
Str(s)  == [t |-> "string", v |-> s]
Ansi(f) == [t |-> "ansi", v |-> f]
IsString(o) == o.t = "string"

\* ShellOutputEvent; "other" stands for any type outside the three known ones
DataEvent(c)      == [type |-> "data", chunk |-> c, bytesReceived |-> 0]
BinaryDetected    == [type |-> "binary_detected", chunk |-> Str(""), bytesReceived |-> 0]
BinaryProgress(n) == [type |-> "binary_progress", chunk |-> Str(""), bytesReceived |-> n]
OtherEvent        == [type |-> "other", chunk |-> Str(""), bytesReceived |-> 0]

\* ----------------------------------------------------------- the registry
\* Map<number, BackgroundShell> as the sequence of its values in iteration
\* (insertion) order.
MapKeys(m) == {m[i].pid : i \in 1..Len(m)}
MapHas(m, pid) == pid \in MapKeys(m)
MapIndex(m, pid) == CHOOSE i \in 1..Len(m) : m[i].pid = pid
MapGet(m, pid) == m[MapIndex(m, pid)]
MapSet(m, pid, shell) ==
    IF MapHas(m, pid)
    THEN [m EXCEPT ![MapIndex(m, pid)] = shell]
    ELSE Append(m, shell)
MapDelete(m, pid) == SelectSeq(m, LAMBDA s : s.pid # pid)

BackgroundShell(pid, command, output, isBinary, bytes, status, exitCode) ==
    [pid |-> pid, command |-> command, output |-> output,
     isBinary |-> isBinary, binaryBytesReceived |-> bytes,
     status |-> status, exitCode |-> exitCode]

\* Fault: a count of all the entries.
countAllShells(m) == Len(m)

countRunningShells(m) ==
    Len(SelectSeq(m, LAMBDA s : s.status = "running"))

VARIABLES
    activeShellPtyId,          \* useState<number | null>
    backgroundShells,          \* backgroundShellsRef.current
    backgroundShellCount,      \* useState(0)
    isBackgroundShellVisible,  \* useState(false)
    pendingHistoryItem,        \* the caller's pending item (setPendingHistoryItem)
    history,                   \* bag of the items passed to addItemToHistory
    geminiHistory,             \* entries passed to geminiClient.addHistory, in order
    exec,                      \* per execution: position and closure of executeCommand
    interactive,               \* config.getEnableInteractiveShell()
    shellInputFocused,         \* the caller's state behind setShellInputFocused
    regs,                      \* per pid: listener pairs registerBackgroundShell installed
    exitHooks,                 \* per pid: onExit listeners installed by executeCommand
    proc,                      \* per pid: "none" | "tool" | "fg" | "tool ended" | "fg ended"
    bgCalls,                   \* pids passed to ShellExecutionService.background
    killCall,                  \* the pid ShellExecutionService.kill was called with in the last step
    uncaught,                  \* the message of the error the handler of the last step threw
    displayMounted,            \* BackgroundShellDisplay is mounted
    activeBackgroundShellPid,  \* the caller's state behind setActiveBackgroundShellPid (prop activePid)
    isBackgroundShellListOpen, \* the caller's state behind setIsBackgroundShellListOpen (prop isListOpenProp)
    listSelectionIndex,        \* useState(0) of BackgroundShellDisplay
    isWindows,                 \* os.platform() === 'win32'
    skillManager,              \* context.services.config?.getSkillManager()
    settings,                  \* context.services.settings
    uiItems,                   \* the items passed to context.ui.addItem, in order
    activateCalls,             \* the names passed to skillManager.activateSkill, in order
    toolResults,               \* the ToolResults the ActivateSkill invocations returned, in order
    activeHooks,               \* prop activeHooks of both status components
    terminalWidth,             \* useTerminalSize().columns
    showNotifications,         \* prop showNotifications of ContextSummaryDisplay
    hookStatus,                \* hooksText of HookStatusDisplay as last rendered
    contextSummary             \* hooksText of ContextSummaryDisplay as last rendered

vars == <<activeShellPtyId, backgroundShells, backgroundShellCount,
          isBackgroundShellVisible, pendingHistoryItem, history, geminiHistory,
          exec, interactive, shellInputFocused, regs, exitHooks, proc, bgCalls,
          killCall, uncaught, displayMounted, activeBackgroundShellPid,
          isBackgroundShellListOpen, listSelectionIndex, isWindows,
          skillManager, settings, uiItems, activateCalls, toolResults,
          activeHooks, terminalWidth, showNotifications, hookStatus, contextSummary>>

registryVars == <<backgroundShells, backgroundShellCount, isBackgroundShellVisible>>
serviceVars  == <<regs, exitHooks, proc, bgCalls>>
fgVars       == <<activeShellPtyId, pendingHistoryItem, geminiHistory, exec>>
displayVars  == <<displayMounted, activeBackgroundShellPid, isBackgroundShellListOpen,
                  listSelectionIndex>>
\* the state outside the hook, which no operation of the hook writes
skillsVars   == <<skillManager, settings, uiItems>>
toolVars     == <<activateCalls, toolResults>>
statusVars   == <<activeHooks, terminalWidth, showNotifications, hookStatus, contextSummary>>
outsideHook  == <<displayMounted, activeBackgroundShellPid, isBackgroundShellListOpen,
                  isWindows, skillsVars, toolVars, statusVars>>

\* a step that makes no ShellExecutionService.kill call
NoKill == killCall' = NoPid
\* a step whose handler returns normally
NoThrow == uncaught' = ""

\* ---------------------------------------------------- the environment
Alive(pid) == pid # NoPid /\ proc[pid] \in {"tool", "fg"}
Ended(state) == IF state = "tool" THEN "tool ended"
                ELSE IF state = "fg" THEN "fg ended" ELSE state
\* the pid the service gives the next process it spawns
FreshPids == {p \in Pids : proc[p] = "none" /\ \A q \in Pids : q < p => proc[q] # "none"}
\* pids of the shells of tool calls, alive or not
ToolPids == {p \in Pids : proc[p] \in {"tool", "tool ended"}}
\* commands run so far, in the foreground or by a tool
CommandsRun ==
    Cardinality({e \in Execs : exec[e].pc # "idle"}) + Cardinality(ToolPids)

\* ------------------------------------------------------- history items
\* An execution is numbered by its userMessageTimestamp, which is also the
\* timestamp it passes to addItemToHistory and the number in its callId
\* `shell-${userMessageTimestamp}`; toggle passes Date.now(), written 0.
\* { type: 'tool_group', tools: [display] }: the group always holds one tool.
ToolGroup(callId, rawQuery, status, resultDisplay, ptyId) ==
    [type |-> "tool_group", callId |-> callId, text |-> rawQuery,
     status |-> status, resultDisplay |-> resultDisplay, ptyId |-> ptyId]
TextItem(type, timestamp, text) ==
    [type |-> type, callId |-> timestamp, text |-> text, status |-> "",
     resultDisplay |-> Str(""), ptyId |-> NoPid]

InfoItem == TextItem("info", 0, "No background shells are currently active.")
UserShellItem(e, rawQuery) == TextItem("user_shell", e, rawQuery)
ErrorItem(e, message) ==
    TextItem("error", e, "An unexpected error occurred: " \o message)

\* Fault: every item added twice.
addItemToHistoryTwice(h, item) == h (+) SetToBag({item}) (+) SetToBag({item})

addItemToHistory(h, item) == h (+) SetToBag({item})
NoItem == [type |-> "null", callId |-> 0, text |-> "", status |-> "",
           resultDisplay |-> Str(""), ptyId |-> NoPid]

\* the locals of executeCommand: executionPid, cumulativeStdout, ..., and
\* result, finalStatus and finalOutput once the result promise resolved
NoResult ==
    [error |-> NoError, aborted |-> FALSE, backgrounded |-> FALSE,
     signal |-> NoSignal, exitCode |-> NoExitCode, pid |-> NoPid,
     rawBinary |-> FALSE, output |-> ""]
NewExec ==
    [pc |-> "idle", rawQuery |-> "", executionPid |-> NoPid,
     cumulativeStdout |-> Str(""), isBinaryStream |-> FALSE,
     binaryBytesReceived |-> 0,
     result |-> NoResult, finalStatus |-> "", finalOutput |-> "",
     abortSignal |-> "clear", abortListener |-> FALSE, abortCalls |-> 0,
     pwdFile |-> FALSE, commandToExecute |-> "", pwdFilePath |-> FALSE,
     branchCalls |-> <<>>]

\* the skills of the manager and the settings of a session
KnownSkills == {"skill1", "skill2"}
SkillManager(present, skills) == [present |-> present, skills |-> skills]
Settings(disabled, path) ==
    [disabled |-> disabled, workspacePath |-> path, setValueCalls |-> <<>>]
SkillsInit ==
    /\ skillManager = SkillManager(TRUE, KnownSkills)
    /\ settings = Settings(<<>>, "/workspace")
    /\ uiItems = <<>>

\* the hooksText of a component that has not rendered, and the status
\* components before any hook runs
NotRendered == [displayedHooks |-> <<>>, hiddenCount |-> 0, result |-> "not rendered"]
StatusInit ==
    /\ activeHooks = <<>>
    /\ terminalWidth = 80
    /\ showNotifications = TRUE
    /\ hookStatus = NotRendered
    /\ contextSummary = NotRendered

HookInit ==
    /\ activeShellPtyId = NoPid
    /\ backgroundShells = <<>>
    /\ backgroundShellCount = 0
    /\ isBackgroundShellVisible = FALSE
    /\ pendingHistoryItem = NoItem
    /\ history = EmptyBag
    /\ geminiHistory = <<>>
    /\ exec = [e \in Execs |-> NewExec]
    /\ interactive \in BOOLEAN
    /\ shellInputFocused = FALSE
    /\ regs = [p \in Pids |-> 0]
    /\ exitHooks = [p \in Pids |-> 0]
    /\ proc = [p \in Pids |-> "none"]
    /\ bgCalls = {}
    /\ killCall = NoPid
    /\ uncaught = ""
    /\ displayMounted = FALSE
    /\ activeBackgroundShellPid = NoPid
    /\ isBackgroundShellListOpen = FALSE
    /\ listSelectionIndex = 0
    /\ activateCalls = <<>>
    /\ toolResults = <<>>

\* The hook on a target that is not Windows, and on any target.
Init == HookInit /\ isWindows = FALSE /\ SkillsInit /\ StatusInit
InitPlatform == HookInit /\ isWindows \in BOOLEAN /\ SkillsInit /\ StatusInit

\* The render that follows a step of the hook (setTick, setBackgroundShellCount,
\* ...), seen from BackgroundShellDisplay: its effect on [isListOpenProp,
\* activeShell, shells] runs again when the step replaced the object of the
\* active entry, and with the list open moves the selection to that entry.
\* `replaced` is the set of pids whose entry object the step created anew.
Rerender(replaced) ==
    listSelectionIndex' =
        IF /\ displayMounted
           /\ isBackgroundShellListOpen
           /\ activeBackgroundShellPid \in replaced
           /\ MapHas(backgroundShells', activeBackgroundShellPid)
        THEN MapIndex(backgroundShells', activeBackgroundShellPid) - 1
        ELSE listSelectionIndex

\* ---------------------------------------------- registry operations
\* Fault: a toggle that flips the visibility of an empty registry too.
toggleUnconditional ==
    /\ isBackgroundShellVisible' = ~isBackgroundShellVisible
    /\ NoKill /\ NoThrow
    /\ UNCHANGED <<backgroundShells, backgroundShellCount, history, fgVars, interactive,
                   shellInputFocused, serviceVars>>
    /\ Rerender({})
    /\ UNCHANGED outsideHook

toggleBackgroundShell ==
    /\ IF Len(backgroundShells) > 0
       THEN /\ isBackgroundShellVisible' = ~isBackgroundShellVisible
            /\ UNCHANGED history
       ELSE /\ CopiesIn(InfoItem, history) < MaxInfo
            /\ history' = addItemToHistory(history, InfoItem)
            /\ UNCHANGED isBackgroundShellVisible
    /\ NoKill /\ NoThrow
    /\ UNCHANGED <<backgroundShells, backgroundShellCount, fgVars, interactive, shellInputFocused,
                   serviceVars>>
    /\ Rerender({})
    /\ UNCHANGED outsideHook

\* ShellExecutionService.background(pid): the service will resolve the result
\* promise of that process as backgrounded.  The result of a tool's process
\* belongs to the tool scheduler, so only a foreground pid is remembered.
backgroundCall(pid) ==
    IF proc[pid] = "fg" THEN bgCalls \cup {pid} ELSE bgCalls

\* activeToolPtyId is the caller's prop: the pid of an executing shell tool
backgroundCurrentShell(activeToolPtyId) ==
    /\ LET pidToBackground ==
               IF activeShellPtyId # NoPid THEN activeShellPtyId ELSE activeToolPtyId
       IN  bgCalls' = IF pidToBackground # NoPid
                      THEN backgroundCall(pidToBackground)
                      ELSE bgCalls
    /\ NoKill /\ NoThrow
    /\ UNCHANGED <<registryVars, fgVars, history, interactive, shellInputFocused,
                   regs, exitHooks, proc>>
    /\ Rerender({})
    /\ UNCHANGED outsideHook

\* Fault: dismissBackgroundShell that never calls ShellExecutionService.kill.
dismissWithoutKill(pid) ==
    /\ IF MapHas(backgroundShells, pid)
       THEN LET after == MapDelete(backgroundShells, pid)
            IN  /\ backgroundShells' = after
                /\ backgroundShellCount' = countRunningShells(after)
                /\ isBackgroundShellVisible' =
                       IF Len(after) = 0 THEN FALSE ELSE isBackgroundShellVisible
       ELSE UNCHANGED registryVars
    /\ NoKill /\ NoThrow
    /\ UNCHANGED <<fgVars, history, interactive, shellInputFocused, serviceVars>>
    /\ Rerender({})
    /\ UNCHANGED outsideHook

dismissBackgroundShell(pid) ==
    /\ IF MapHas(backgroundShells, pid)
       THEN LET shell == MapGet(backgroundShells, pid)
                after == MapDelete(backgroundShells, pid)
            IN  /\ killCall' = IF shell.status = "running" THEN pid ELSE NoPid
                /\ backgroundShells' = after
                /\ backgroundShellCount' = countRunningShells(after)
                /\ isBackgroundShellVisible' =
                       IF Len(after) = 0 THEN FALSE ELSE isBackgroundShellVisible
       ELSE NoKill /\ UNCHANGED registryVars
    /\ NoThrow
    /\ UNCHANGED <<fgVars, history, interactive, shellInputFocused, serviceVars>>
    /\ Rerender({})
    /\ UNCHANGED outsideHook

\* Fault: registerBackgroundShell that installs its listeners before the
\* `has(pid)` test.
registerReinstalling(pid, command, initialOutput) ==
    /\ regs[pid] < MaxRegs
    /\ regs' = [regs EXCEPT ![pid] = @ + 1]
    /\ IF MapHas(backgroundShells, pid)
       THEN UNCHANGED <<backgroundShells, backgroundShellCount>>
       ELSE LET after == MapSet(backgroundShells, pid,
                             BackgroundShell(pid, command, initialOutput,
                                             FALSE, 0, "running", NoExitCode))
            IN  /\ backgroundShells' = after
                /\ backgroundShellCount' = countRunningShells(after)
    /\ NoKill /\ NoThrow
    /\ UNCHANGED <<isBackgroundShellVisible, fgVars, history, interactive, shellInputFocused,
                   exitHooks, proc, bgCalls>>
    /\ Rerender(IF MapHas(backgroundShells, pid) THEN {} ELSE {pid})
    /\ UNCHANGED outsideHook

\* Fault: registerBackgroundShell without its `has(pid)` early return.
registerOverwriting(pid, command, initialOutput) ==
    /\ LET after == MapSet(backgroundShells, pid,
                        BackgroundShell(pid, command, initialOutput,
                                        FALSE, 0, "running", NoExitCode))
       IN  /\ regs[pid] < MaxRegs
           /\ backgroundShells' = after
           /\ regs' = [regs EXCEPT ![pid] = @ + 1]
           /\ backgroundShellCount' = countRunningShells(after)
    /\ NoKill /\ NoThrow
    /\ UNCHANGED <<isBackgroundShellVisible, fgVars, history, interactive, shellInputFocused,
                   exitHooks, proc, bgCalls>>
    /\ Rerender({pid})
    /\ UNCHANGED outsideHook

registerBackgroundShell(pid, command, initialOutput) ==
    /\ IF MapHas(backgroundShells, pid)
       THEN UNCHANGED <<backgroundShells, backgroundShellCount, regs>>
       ELSE LET after == MapSet(backgroundShells, pid,
                             BackgroundShell(pid, command, initialOutput,
                                             FALSE, 0, "running", NoExitCode))
            IN  /\ regs[pid] < MaxRegs
                /\ backgroundShells' = after
                \* onExit(pid, ...) and subscribe(pid, ...): one listener each
                /\ regs' = [regs EXCEPT ![pid] = @ + 1]
                /\ backgroundShellCount' = countRunningShells(after)
    /\ NoKill /\ NoThrow
    /\ UNCHANGED <<isBackgroundShellVisible, fgVars, history, interactive, shellInputFocused,
                   exitHooks, proc, bgCalls>>
    /\ Rerender(IF MapHas(backgroundShells, pid) THEN {} ELSE {pid})
    /\ UNCHANGED outsideHook

\* Fault: an exit listener that reinserts the entry without its output.
ExitListenerClearingOutput(m, pid, code) ==
    IF MapHas(m, pid)
    THEN MapSet(MapDelete(m, pid), pid,
                [MapGet(m, pid) EXCEPT !.status = "exited", !.exitCode = code,
                                       !.output = Str("")])
    ELSE m

\* Fault: an exit listener that drops the entry of the process that ended.
ExitListenerRemoving(m, pid, code) == MapDelete(m, pid)

\* Fault: an exit listener that writes an entry whether or not there is one.
ExitListenerRecreating(m, pid, code) ==
    MapSet(MapDelete(m, pid), pid,
           IF MapHas(m, pid)
           THEN [MapGet(m, pid) EXCEPT !.status = "exited", !.exitCode = code]
           ELSE BackgroundShell(pid, "", Str(""), FALSE, 0, "exited", code))

\* The onExit listener registerBackgroundShell installs for pid, run once.
RegisteredExitListener(m, pid, code) ==
    IF MapHas(m, pid)
    THEN LET shell == MapGet(m, pid)
         IN  MapSet(MapDelete(m, pid), pid,
                    [shell EXCEPT !.status = "exited", !.exitCode = code])
    ELSE m

\* Fault: an exit listener that records the status and not the exit code.
ExitListenerWithoutCode(m, pid, code) ==
    IF MapHas(m, pid)
    THEN MapSet(m, pid, [MapGet(m, pid) EXCEPT !.status = "exited"])
    ELSE m

\* The onExit listener executeCommand installs for result.pid, run once.
CompletionExitListener(m, pid, code) ==
    IF MapHas(m, pid)
    THEN LET shell == MapGet(m, pid)
         IN  MapSet(m, pid, [shell EXCEPT !.status = "exited", !.exitCode = code])
    ELSE m

\* Fault: a subscribe listener that rebuilds the entry from a data event.
StreamListenerResetting(m, pid, event) ==
    IF ~MapHas(m, pid)
    THEN m
    ELSE LET shell == MapGet(m, pid)
         IN  MapSet(m, pid,
                    IF event.type = "data"
                    THEN [shell EXCEPT !.output = event.chunk, !.isBinary = FALSE]
                    ELSE [shell EXCEPT !.isBinary = TRUE])

\* Fault: a subscribe listener that appends the chunk of a data event.
StreamListenerAppending(m, pid, event) ==
    IF ~MapHas(m, pid)
    THEN m
    ELSE LET shell == MapGet(m, pid)
         IN  MapSet(m, pid,
                    IF event.type = "data"
                    THEN [shell EXCEPT !.output = Str(@.v \o event.chunk.v)]
                    ELSE [shell EXCEPT !.isBinary = TRUE])

\* The subscribe listener registerBackgroundShell installs for pid, run once.
RegisteredStreamListener(m, pid, event) ==
    IF ~MapHas(m, pid)
    THEN m
    ELSE LET shell == MapGet(m, pid)
             updated ==
                 CASE event.type = "data" ->
                          [shell EXCEPT !.output = event.chunk]
                   [] event.type = "binary_detected" ->
                          [shell EXCEPT !.isBinary = TRUE]
                   [] event.type = "binary_progress" ->
                          [shell EXCEPT !.isBinary = TRUE,
                                        !.binaryBytesReceived = event.bytesReceived]
                   [] OTHER -> shell
         IN  MapSet(m, pid, updated)

\* The registry after each of the n listeners registerBackgroundShell
\* installed for pid, and then each of the k listeners executeCommand installed
\* for it, ran on the exit of its process.
RECURSIVE ExitListeners(_, _, _, _, _)
ExitListeners(m, pid, code, n, k) ==
    IF n > 0 THEN ExitListeners(RegisteredExitListener(m, pid, code), pid, code, n - 1, k)
    ELSE IF k > 0 THEN ExitListeners(CompletionExitListener(m, pid, code), pid, code, 0, k - 1)
    ELSE m

\* The registry after each of the n subscribe listeners of pid received event.
RECURSIVE StreamListeners(_, _, _, _)
StreamListeners(m, pid, event, n) ==
    IF n > 0 THEN StreamListeners(RegisteredStreamListener(m, pid, event), pid, event, n - 1)
    ELSE m

\* The tool scheduler runs a shell tool: the service spawns its process.
serviceSpawns(pid) ==
    /\ pid \in FreshPids
    /\ proc' = [proc EXCEPT ![pid] = "tool"]
    /\ NoKill /\ NoThrow
    /\ UNCHANGED <<registryVars, fgVars, history, interactive, shellInputFocused, regs, exitHooks, bgCalls>>
    /\ Rerender({})
    /\ UNCHANGED outsideHook

\* The same within the budget of commands.
toolSpawns(pid) ==
    /\ CommandsRun < MaxProc
    /\ serviceSpawns(pid)

\* Process pid ends and the service calls every onExit listener installed for
\* it: those of registerBackgroundShell, then those of executeCommand.  The
\* exit of a foreground child that was not backgrounded is part of the step
\* that resolves its result.
processExit(pid, code) ==
    /\ Alive(pid)
    /\ \A e \in Execs : exec[e].executionPid = pid => exec[e].pc \in {"done", "failed"}
    /\ proc' = [proc EXCEPT ![pid] = Ended(@)]
    /\ LET after == ExitListeners(backgroundShells, pid, code, regs[pid], exitHooks[pid])
       IN  /\ backgroundShells' = after
           /\ backgroundShellCount' =
                  IF regs[pid] + exitHooks[pid] > 0 /\ MapHas(backgroundShells, pid)
                  THEN countRunningShells(after)
                  ELSE backgroundShellCount
    /\ NoKill /\ NoThrow
    /\ UNCHANGED <<isBackgroundShellVisible, fgVars, history, interactive, shellInputFocused,
                   regs, exitHooks, bgCalls>>
    /\ Rerender(IF regs[pid] > 0 /\ MapHas(backgroundShells, pid) THEN {pid} ELSE {})
    /\ UNCHANGED outsideHook

\* The service emits a streaming event of a tool shell to the listeners
\* subscribe(pid, ...) installed.
subscribedEvent(pid, event) ==
    /\ proc[pid] = "tool"
    /\ regs[pid] > 0
    /\ backgroundShells' = StreamListeners(backgroundShells, pid, event, regs[pid])
    /\ NoKill /\ NoThrow
    /\ UNCHANGED <<backgroundShellCount, isBackgroundShellVisible, fgVars, history,
                   interactive, shellInputFocused, serviceVars>>
    /\ Rerender({})
    /\ UNCHANGED outsideHook

\* ------------------------------------------- foreground execution
MAX_OUTPUT_LENGTH == 10000
TargetDir == "/work"     \* config.getTargetDir()

\* String.prototype.trim over the white space the results here contain
IsSpace(c) == c \in {" ", "\n"}
RECURSIVE TrimStart(_)
TrimStart(s) ==
    IF Len(s) > 0 /\ IsSpace(SubSeq(s, 1, 1))
    THEN TrimStart(SubSeq(s, 2, Len(s)))
    ELSE s
RECURSIVE TrimEnd(_)
TrimEnd(s) ==
    IF Len(s) > 0 /\ IsSpace(SubSeq(s, Len(s), Len(s)))
    THEN TrimEnd(SubSeq(s, 1, Len(s) - 1))
    ELSE s
Trim(s) == TrimEnd(TrimStart(s))

\* `${n}` of a number that may be null / undefined
NumText(n, absent, word) == IF n = absent THEN word ELSE ToString(n)

formatMemoryUsage(bytes) == ToString(bytes) \o " B"

\* String.prototype.startsWith
StartsWith(text, prefix) ==
    /\ Len(text) >= Len(prefix)
    /\ SubSeq(text, 1, Len(prefix)) = prefix

\* String.prototype.endsWith
EndsWith(text, suffix) ==
    /\ Len(text) >= Len(suffix)
    /\ SubSeq(text, Len(text) - Len(suffix) + 1, Len(text)) = suffix

\* path.join(os.tmpdir(), `shell_pwd_${crypto.randomBytes(6).toString('hex')}.tmp`)
PwdFilePath == "/tmp/shell_pwd_0a1b2c3d4e5f.tmp"

\* Fault: a wrapper that adds its separator to every command.
wrapAlwaysSeparating(rawQuery) ==
    "{ " \o Trim(rawQuery) \o ";" \o " }; __code=$?; pwd > \""
         \o PwdFilePath \o "\"; exit $__code"

\* The command wrapped to capture the final working directory.
wrapCommand(rawQuery) ==
    LET trimmed == Trim(rawQuery)
        command == IF ~EndsWith(trimmed, ";") /\ ~EndsWith(trimmed, "&")
                   THEN trimmed \o ";"
                   ELSE trimmed
    IN  "{ " \o command \o " }; __code=$?; pwd > \"" \o PwdFilePath
             \o "\"; exit $__code"

\* ShellExecutionResult, and the marker file the wrapped command may have left
Results(errors, signals, codes, pids, outputs) ==
    [error : errors, aborted : BOOLEAN, backgrounded : BOOLEAN,
     signal : signals, exitCode : codes, pid : pids,
     rawBinary : BOOLEAN, output : outputs]
NoMarker == [exists |-> FALSE, content |-> ""]
Marker(content) == [exists |-> TRUE, content |-> content]

mainContent(result) ==
    IF result.rawBinary
    THEN "[Command produced binary output, which is not shown.]"
    ELSE IF Trim(result.output) # ""
         THEN Trim(result.output)
         ELSE "(Command produced no output)"

\* Fault: the derivation with `aborted` tested before `error`.
finalStatusAbortedFirst(result) ==
    IF result.aborted THEN "Canceled"
    ELSE IF result.error # NoError THEN "Error"
    ELSE IF result.backgrounded THEN "Success"
    ELSE IF result.signal # NoSignal THEN "Error"
    ELSE IF result.exitCode # 0 THEN "Error"
    ELSE "Success"

finalStatus(result) ==
    IF result.error # NoError THEN "Error"
    ELSE IF result.aborted THEN "Canceled"
    ELSE IF result.backgrounded THEN "Success"
    ELSE IF result.signal # NoSignal THEN "Error"
    ELSE IF result.exitCode # 0 THEN "Error"
    ELSE "Success"

\* Fault: the output left without the line that tells how the command ended.
statusOutputBare(result) == mainContent(result)

statusOutput(result) ==
    IF result.error # NoError
        THEN result.error \o "\n" \o mainContent(result)
    ELSE IF result.aborted
        THEN "Command was cancelled.\n" \o mainContent(result)
    ELSE IF result.backgrounded
        THEN "Command moved to background (PID: "
                 \o NumText(result.pid, NoPid, "undefined")
                 \o "). Output hidden. Press Ctrl+B to view."
    ELSE IF result.signal # NoSignal
        THEN "Command terminated by signal: " \o ToString(result.signal)
                 \o ".\n" \o mainContent(result)
    ELSE IF result.exitCode # 0
        THEN "Command exited with code "
                 \o NumText(result.exitCode, NoExitCode, "null")
                 \o ".\n" \o mainContent(result)
    ELSE mainContent(result)

finalOutput(result, marker) ==
    LET finalPwd == Trim(marker.content)
    IN  IF marker.exists /\ finalPwd # "" /\ finalPwd # TargetDir
        THEN "WARNING: shell mode is stateless; the directory change to '"
                 \o finalPwd \o "' will not persist." \o "\n\n" \o statusOutput(result)
        ELSE statusOutput(result)

\* Fault: the cut made from MAX_OUTPUT_LENGTH characters on.
modelContentCutAtLimit(resultText) ==
    IF Len(resultText) >= MAX_OUTPUT_LENGTH
    THEN SubSeq(resultText, 1, MAX_OUTPUT_LENGTH) \o "\n... (truncated)"
    ELSE resultText

modelContent(resultText) ==
    IF Len(resultText) > MAX_OUTPUT_LENGTH
    THEN SubSeq(resultText, 1, MAX_OUTPUT_LENGTH) \o "\n... (truncated)"
    ELSE resultText

\* Faults: the model history left alone, and the entry added twice.
GeminiHistoryUntouched(h, rawQuery, resultText) == h
GeminiHistoryTwice(h, rawQuery, resultText) ==
    LET entry == [role |-> "user", rawQuery |-> rawQuery,
                  modelContent |-> modelContent(resultText)]
    IN  Append(Append(h, entry), entry)

addShellCommandToGeminiHistory(h, rawQuery, resultText) ==
    Append(h, [role |-> "user", rawQuery |-> rawQuery,
               modelContent |-> modelContent(resultText)])

\* addShellCommandToGeminiHistory(geminiClient, rawQuery, resultText) taken
\* alone, with any result text.
geminiHistoryAdd(rawQuery, resultText) ==
    /\ Len(geminiHistory) < MaxAdds
    /\ geminiHistory' =
           addShellCommandToGeminiHistory(geminiHistory, rawQuery, resultText)
    /\ NoKill /\ NoThrow
    /\ UNCHANGED <<activeShellPtyId, registryVars, pendingHistoryItem, history, exec,
                   interactive, shellInputFocused, serviceVars>>
    /\ Rerender({})
    /\ UNCHANGED outsideHook

\* setPendingHistoryItem(prev => ...): the tool whose callId matches is
\* rewritten, with its ptyId or with its resultDisplay
SetPtyId(prevItem, callId, pid) ==
    IF prevItem.type = "tool_group" /\ prevItem.callId = callId
    THEN [prevItem EXCEPT !.ptyId = pid]
    ELSE prevItem
\* Fault: an update of the pending item that does not compare the callId.
SetResultDisplayOfAnyCall(prevItem, callId, display) ==
    IF prevItem.type = "tool_group"
    THEN [prevItem EXCEPT !.resultDisplay = display]
    ELSE prevItem
SetResultDisplay(prevItem, callId, display) ==
    IF prevItem.type = "tool_group" /\ prevItem.callId = callId
    THEN [prevItem EXCEPT !.resultDisplay = display]
    ELSE prevItem

\* Once the child of an execution that is over has ended, nothing can call
\* its onEvent callback again: the locals the callback works on are dropped.
Settle(x, procAfter) ==
    IF x.pc \in {"done", "failed"}
       /\ (x.executionPid = NoPid \/ procAfter[x.executionPid] # "fg")
    THEN [x EXCEPT !.cumulativeStdout = Str(""), !.isBinaryStream = FALSE,
                   !.binaryBytesReceived = 0]
    ELSE x

\* handleShellCommand up to the first await of executeCommand.  callId is
\* `shell-${Date.now()}`; the number of the execution stands for its timestamp.
handleShellCommand(e, rawQuery) ==
    /\ Trim(rawQuery) # ""
    /\ exec[e].pc = "idle"
    /\ CommandsRun < MaxProc
    /\ \A d \in Execs : d < e => exec[d].pc \in {"done", "failed"}
    /\ history' = addItemToHistory(history, UserShellItem(e, rawQuery))
    /\ pendingHistoryItem' = ToolGroup(e, rawQuery, "Executing", Str(""), NoPid)
    \* abortSignal.addEventListener('abort', abortHandler, { once: true })
    /\ exec' = [exec EXCEPT ![e].pc = "starting", ![e].rawQuery = rawQuery,
                            ![e].abortListener = TRUE,
                            ![e].pwdFilePath = ~isWindows,
                            ![e].commandToExecute =
                                IF isWindows THEN rawQuery ELSE wrapCommand(rawQuery)]
    /\ NoKill /\ NoThrow
    /\ UNCHANGED <<activeShellPtyId, registryVars, geminiHistory, interactive, shellInputFocused,
                   serviceVars>>
    /\ Rerender({})
    /\ UNCHANGED outsideHook

\* ShellExecutionService.execute resolves with { pid, result }: the pid of the
\* process it spawned, or none.
executeResolves(e, pid) ==
    /\ exec[e].pc = "starting"
    /\ pid \in FreshPids \cup {NoPid}
    /\ exec' = [exec EXCEPT ![e].pc = "running", ![e].executionPid = pid]
    /\ IF pid # NoPid
       THEN /\ activeShellPtyId' = pid
            /\ pendingHistoryItem' = SetPtyId(pendingHistoryItem, e, pid)
            /\ proc' = [proc EXCEPT ![pid] = "fg"]
       ELSE UNCHANGED <<activeShellPtyId, pendingHistoryItem, proc>>
    /\ NoKill /\ NoThrow
    /\ UNCHANGED <<registryVars, history, geminiHistory, interactive, shellInputFocused,
                   regs, exitHooks, bgCalls>>
    /\ Rerender({})
    /\ UNCHANGED outsideHook

\* The locals of executeCommand after the onEvent callback classified event.
\* Fault: a data chunk replaces what was accumulated, in either mode.
AfterEventLatestOnly(x, event) ==
    CASE event.type = "data" ->
             IF x.isBinaryStream THEN x
             ELSE [x EXCEPT !.cumulativeStdout = event.chunk]
      [] event.type = "binary_detected" ->
             [x EXCEPT !.isBinaryStream = TRUE]
      [] event.type = "binary_progress" ->
             [x EXCEPT !.isBinaryStream = TRUE,
                       !.binaryBytesReceived = event.bytesReceived]

AfterEvent(x, event) ==
    CASE event.type = "data" ->
             IF x.isBinaryStream THEN x
             ELSE IF interactive
                  THEN [x EXCEPT !.cumulativeStdout = event.chunk]
             ELSE IF IsString(event.chunk) /\ IsString(x.cumulativeStdout)
                  THEN [x EXCEPT !.cumulativeStdout =
                                     Str(x.cumulativeStdout.v \o event.chunk.v)]
             ELSE x
      [] event.type = "binary_detected" ->
             [x EXCEPT !.isBinaryStream = TRUE]
      [] event.type = "binary_progress" ->
             [x EXCEPT !.isBinaryStream = TRUE,
                       !.binaryBytesReceived = event.bytesReceived]

shouldUpdate(x, event) ==
    CASE event.type = "data" ->
             /\ ~x.isBinaryStream
             /\ interactive \/ (IsString(event.chunk) /\ IsString(x.cumulativeStdout))
      [] OTHER -> TRUE

currentDisplayOutput(x) ==
    IF x.isBinaryStream
    THEN IF x.binaryBytesReceived > 0
         THEN Str("[Receiving binary output... "
                      \o formatMemoryUsage(x.binaryBytesReceived) \o " received]")
         ELSE Str("[Binary output detected. Halting stream...]")
    ELSE x.cumulativeStdout

\* Fault: a redirect that leaves the entry as it was.
RedirectDropping(m, pid, x) == m

\* The redirect of the callback: the entry of pid rewritten from the locals.
RedirectToRegistry(m, pid, x) ==
    MapSet(m, pid, [MapGet(m, pid) EXCEPT
                        !.output = x.cumulativeStdout,
                        !.isBinary = x.isBinaryStream,
                        !.binaryBytesReceived = x.binaryBytesReceived])

\* The service calls the onEvent callback executeCommand passed to execute,
\* which it does once execute has resolved and while the child is alive.
onEvent(e, event) ==
    /\ exec[e].pc \in {"running", "done", "failed"}
    /\ Alive(exec[e].executionPid)
    /\ event.type = "data" /\ IsString(event.chunk) /\ IsString(exec[e].cumulativeStdout)
           => Len(exec[e].cumulativeStdout.v) + Len(event.chunk.v) <= MaxOut
    /\ IF event.type \notin {"data", "binary_detected", "binary_progress"}
       THEN /\ uncaught' = "An unhandled ShellOutputEvent was found."
            /\ UNCHANGED <<exec, backgroundShells, pendingHistoryItem>>
       ELSE LET x == AfterEvent(exec[e], event)
                pid == x.executionPid
            IN  /\ NoThrow
                /\ exec' = [exec EXCEPT ![e] = x]
                /\ IF pid # NoPid /\ MapHas(backgroundShells, pid)
                   THEN /\ backgroundShells' = RedirectToRegistry(backgroundShells, pid, x)
                        /\ UNCHANGED pendingHistoryItem
                   ELSE /\ UNCHANGED backgroundShells
                        /\ pendingHistoryItem' =
                               IF shouldUpdate(exec[e], event)
                               THEN SetResultDisplay(pendingHistoryItem, e,
                                                     currentDisplayOutput(x))
                               ELSE pendingHistoryItem
    /\ NoKill
    /\ UNCHANGED <<activeShellPtyId, backgroundShellCount, isBackgroundShellVisible,
                   history, geminiHistory, interactive, shellInputFocused,
                   serviceVars>>
    /\ Rerender(IF event.type \in {"data", "binary_detected", "binary_progress"}
                   THEN {exec[e].executionPid} \cap MapKeys(backgroundShells)
                   ELSE {})
    /\ UNCHANGED outsideHook

\* Whether the service may resolve the result promise of execution e with
\* result: it names the pid it reported or none, and says 'backgrounded' only
\* after background(pid) was called for the live child.
ServiceResult(e, result) ==
    /\ result.pid \in {exec[e].executionPid, NoPid}
    /\ result.backgrounded => exec[e].executionPid \in bgCalls

\* The registry after the backgrounded branch of executeCommand.
CompletionEntry(m, result, x) ==
    MapSet(m, result.pid,
           BackgroundShell(result.pid, x.rawQuery, x.cumulativeStdout,
                           x.isBinaryStream, x.binaryBytesReceived,
                           "running", NoExitCode))

\* Fault: the backgrounded branch installing its listener before the reset.
branchCallsListenerFirst(moved) ==
    IF moved
    THEN <<"backgroundShellsRef.current.set", "setBackgroundShellCount",
           "ShellExecutionService.onExit", "setActiveShellPtyId">>
    ELSE <<>>

\* The calls of the `result.backgrounded && result.pid` branch, in the order
\* in which it makes them.
backgroundedBranchCalls(moved) ==
    IF moved
    THEN <<"backgroundShellsRef.current.set", "setBackgroundShellCount",
           "setActiveShellPtyId", "ShellExecutionService.onExit">>
    ELSE <<>>

\* Fault: the marker file looked for whether or not the command was wrapped.
MarkerOnAnyTarget(x, marker) == marker

\* `pwdFilePath && fs.existsSync(pwdFilePath)`: the marker file as executeCommand
\* sees it, which is not at all when the command was not wrapped.
MarkerAt(x, marker) == IF x.pwdFilePath THEN marker ELSE NoMarker

\* fs.readFileSync and fs.unlinkSync of the marker file may throw
IoOutcomes == {"ok", "read throws", "unlink throws", "both throw"}
ReadThrows(marker, io) == marker.exists /\ io \in {"read throws", "both throw"}
UnlinkThrows(marker, io) == marker.exists /\ io \in {"unlink throws", "both throw"}

\* Fault: the completion without its setActiveShellPtyId(null) calls.
activeKept(active, moved, unlinkThrows) == active

\* activeShellPtyId after the completion: the backgrounded branch resets it,
\* and so does the finally block once the marker file is unlinked.
activeAfterCompletion(active, moved, unlinkThrows) ==
    IF moved \/ ~unlinkThrows THEN NoPid ELSE active

\* Fault: a finally block that keeps the abort listener.
FinallyKeepingListener(x, unlinkThrows) == [x EXCEPT !.pwdFile = unlinkThrows]

\* The locals and resources of an execution after its finally block: the
\* abort listener is removed, the marker file is gone unless unlinkSync threw.
Finally(x, unlinkThrows) ==
    [x EXCEPT !.abortListener = FALSE, !.pwdFile = unlinkThrows]

\* The continuation of executeCommand after `await resultPromise`, down to
\* the end of its finally block.  ended: the child is gone when it runs, which
\* it is unless it was backgrounded or ignores the cancellation.  marker: the
\* marker file as the wrapped command left it.
resultResolves(e, result, marker, ended, io) ==
    /\ exec[e].pc = "running"
    /\ ServiceResult(e, result)
    /\ result.backgrounded => ~marker.exists /\ ~ended
    /\ ~result.backgrounded /\ ~result.aborted => ended
    /\ LET x == exec[e]
           moved == result.backgrounded /\ result.pid # NoPid
           after == IF moved
                    THEN CompletionEntry(backgroundShells, result, x)
                    ELSE backgroundShells
           seen == MarkerAt(x, marker)
           text == finalOutput(result, seen)
           finalToolDisplay ==
               ToolGroup(e, x.rawQuery, finalStatus(result), Str(text), NoPid)
           procAfter == IF ended /\ x.executionPid # NoPid
                        THEN [proc EXCEPT ![x.executionPid] = Ended(@)]
                        ELSE proc
           readThrows == ReadThrows(seen, io)
           unlinkThrows == UnlinkThrows(seen, io)
       IN  /\ pendingHistoryItem' = NoItem
           /\ backgroundShells' = after
           /\ backgroundShellCount' =
                  IF moved THEN countRunningShells(after) ELSE backgroundShellCount
           /\ exitHooks' = IF moved
                           THEN [exitHooks EXCEPT ![result.pid] = @ + 1]
                           ELSE exitHooks
           /\ history' = IF readThrows
                         THEN addItemToHistory(history, ErrorItem(e, "EACCES"))
                         ELSE IF finalStatus(result) # "Canceled"
                         THEN addItemToHistory(history, finalToolDisplay)
                         ELSE history
           /\ geminiHistory' =
                  IF readThrows THEN geminiHistory
                  ELSE addShellCommandToGeminiHistory(geminiHistory, x.rawQuery, text)
           /\ activeShellPtyId' =
                  activeAfterCompletion(activeShellPtyId, moved, unlinkThrows)
           /\ shellInputFocused' = IF unlinkThrows THEN shellInputFocused ELSE FALSE
           /\ uncaught' = IF unlinkThrows THEN "EPERM" ELSE ""
           /\ proc' = procAfter
           /\ exec' = [exec EXCEPT ![e] =
                          Settle(Finally(IF readThrows
                                         THEN [x EXCEPT !.pc = "failed"]
                                         ELSE [x EXCEPT !.pc = "done",
                                                        !.branchCalls =
                                                            backgroundedBranchCalls(moved),
                                                        !.result = result,
                                                        !.finalStatus = finalStatus(result),
                                                        !.finalOutput = text],
                                         unlinkThrows),
                                 procAfter)]
    /\ bgCalls' = bgCalls \ {exec[e].executionPid}
    /\ NoKill
    /\ UNCHANGED <<isBackgroundShellVisible, interactive, regs>>
    /\ Rerender(IF result.backgrounded THEN {result.pid} \ {NoPid} ELSE {})
    /\ UNCHANGED outsideHook

\* execute or the result promise rejects: the catch and finally blocks.
executeCommandThrows(e, message, marker, io) ==
    /\ exec[e].pc \in {"starting", "running"}
    /\ exec[e].pc = "starting" => ~marker.exists
    /\ pendingHistoryItem' = NoItem
    /\ history' = addItemToHistory(history, ErrorItem(e, message))
    /\ activeShellPtyId' =
           activeAfterCompletion(activeShellPtyId, FALSE, UnlinkThrows(MarkerAt(exec[e], marker), io))
    /\ shellInputFocused' =
           IF UnlinkThrows(MarkerAt(exec[e], marker), io) THEN shellInputFocused ELSE FALSE
    /\ uncaught' = IF UnlinkThrows(MarkerAt(exec[e], marker), io) THEN "EPERM" ELSE ""
    /\ LET procAfter == IF exec[e].executionPid # NoPid
                        THEN [proc EXCEPT ![exec[e].executionPid] = Ended(@)]
                        ELSE proc
       IN  /\ proc' = procAfter
           /\ exec' = [exec EXCEPT ![e] =
                          Settle(Finally([@ EXCEPT !.pc = "failed"],
                                         UnlinkThrows(MarkerAt(exec[e], marker), io)),
                                 procAfter)]
    /\ bgCalls' = bgCalls \ {exec[e].executionPid}
    /\ NoKill
    /\ UNCHANGED <<registryVars, geminiHistory, interactive, regs, exitHooks>>
    /\ Rerender({})
    /\ UNCHANGED outsideHook

\* The caller's AbortSignal of execution e is aborted: its 'abort' event goes
\* to the listeners registered at that moment, and a { once: true } listener
\* is removed as it is called.  when: where the execution stands.
abortSignalled(e) ==
    /\ exec[e].abortSignal = "clear"
    /\ exec' = [exec EXCEPT
                   ![e].abortSignal =
                       IF exec[e].pc = "idle" THEN "before"
                       ELSE IF exec[e].pc \in {"starting", "running"} THEN "during"
                       ELSE "after",
                   ![e].abortCalls = IF exec[e].abortListener THEN @ + 1 ELSE @,
                   ![e].abortListener = FALSE]
    /\ NoKill /\ NoThrow
    /\ UNCHANGED <<activeShellPtyId, registryVars, pendingHistoryItem, history,
                   geminiHistory, interactive, shellInputFocused, serviceVars>>
    /\ Rerender({})
    /\ UNCHANGED outsideHook

\* The user moves the input focus into the shell of the running command.
focusShellInput ==
    /\ activeShellPtyId # NoPid
    /\ ~shellInputFocused
    /\ shellInputFocused' = TRUE
    /\ NoKill /\ NoThrow
    /\ UNCHANGED <<registryVars, fgVars, history, interactive, serviceVars>>
    /\ Rerender({})
    /\ UNCHANGED outsideHook

\* The wrapped command of an execution that is over reaches `pwd > file`:
\* the child was left running and the user's command came to its end.
childWritesPwd(e) ==
    /\ exec[e].pc \in {"done", "failed"}
    /\ exec[e].executionPid # NoPid /\ proc[exec[e].executionPid] = "fg"
    /\ exec[e].pwdFilePath
    /\ ~exec[e].pwdFile
    /\ exec' = [exec EXCEPT ![e].pwdFile = TRUE]
    /\ NoKill /\ NoThrow
    /\ UNCHANGED <<activeShellPtyId, registryVars, pendingHistoryItem, history,
                   geminiHistory, interactive, shellInputFocused, serviceVars>>
    /\ Rerender({})
    /\ UNCHANGED outsideHook

\* ------------------------------------------- the background shell view
\* BackgroundShellDisplay, rendered by the caller with the hook's registry as
\* `shells`, and the caller's state as `activePid` and `isListOpenProp`.
hookVars == <<activeShellPtyId, registryVars, pendingHistoryItem, history,
              geminiHistory, exec, interactive, shellInputFocused, serviceVars,
              isWindows>>

\* Array.from(shells.keys())
shellPids == [i \in 1..Len(backgroundShells) |-> backgroundShells[i].pid]
\* shells.get(activePid) is defined
HasActiveShell == MapHas(backgroundShells, activeBackgroundShellPid)

\* The effect on [isListOpenProp, activeShell, shells]: with the list open and
\* an active entry, the selection moves to the index of the active entry.
SelectionEffect(open, active, index) ==
    IF open /\ MapHas(backgroundShells, active)
    THEN MapIndex(backgroundShells, active) - 1
    ELSE index

\* Fault: a mount that leaves the list as the caller had it.
displayMountsKeepingMode ==
    /\ ~displayMounted
    /\ isBackgroundShellVisible
    /\ displayMounted' = TRUE
    /\ listSelectionIndex' =
           SelectionEffect(isBackgroundShellListOpen, activeBackgroundShellPid, 0)
    /\ NoKill /\ NoThrow
    /\ UNCHANGED <<hookVars, skillsVars, toolVars, statusVars, activeBackgroundShellPid, isBackgroundShellListOpen>>

\* The caller renders the view, which it does while the view is visible: the
\* component mounts with listSelectionIndex 0 and its effects run.
displayMounts ==
    /\ ~displayMounted
    /\ isBackgroundShellVisible
    /\ displayMounted' = TRUE
    /\ LET open == IF Len(backgroundShells) = 1 THEN FALSE
                   ELSE IF Len(backgroundShells) > 1 THEN TRUE
                   ELSE isBackgroundShellListOpen
       IN  /\ isBackgroundShellListOpen' = open
           /\ listSelectionIndex' =
                  SelectionEffect(open, activeBackgroundShellPid, 0)
    /\ NoKill /\ NoThrow
    /\ UNCHANGED <<hookVars, skillsVars, toolVars, statusVars, activeBackgroundShellPid>>

\* The caller stops rendering the view once it is not visible; the state of
\* the component is gone.
displayUnmounts ==
    /\ displayMounted
    /\ ~isBackgroundShellVisible
    /\ displayMounted' = FALSE
    /\ listSelectionIndex' = 0
    /\ NoKill /\ NoThrow
    /\ UNCHANGED <<hookVars, skillsVars, toolVars, statusVars, activeBackgroundShellPid, isBackgroundShellListOpen>>

\* The caller makes an entry of the registry the active one.
callerSelects(pid) ==
    /\ MapHas(backgroundShells, pid)
    /\ pid # activeBackgroundShellPid
    /\ activeBackgroundShellPid' = pid
    /\ listSelectionIndex' =
           IF displayMounted
           THEN SelectionEffect(isBackgroundShellListOpen, pid, listSelectionIndex)
           ELSE listSelectionIndex
    /\ NoKill /\ NoThrow
    /\ UNCHANGED <<hookVars, skillsVars, toolVars, statusVars, displayMounted, isBackgroundShellListOpen>>

Keys == {"up", "down", "return", "enter", "escape", "ctrl+o", "ctrl+k", "ctrl+b"}

\* Fault: a list in which 'up' moves the selection the way 'down' does.
listKeyUpAsDown(key) ==
    LET n == Len(backgroundShells)
        selectedPid == IF listSelectionIndex < n
                       THEN shellPids[listSelectionIndex + 1]
                       ELSE NoPid
    IN  CASE key \in {"up", "down"} ->
                 /\ listSelectionIndex' = (listSelectionIndex + 1) % n
                 /\ UNCHANGED <<activeBackgroundShellPid, isBackgroundShellListOpen>>
          [] key \in {"return", "enter", "ctrl+o"} ->
                 /\ activeBackgroundShellPid' =
                        IF selectedPid # NoPid THEN selectedPid
                        ELSE activeBackgroundShellPid
                 /\ isBackgroundShellListOpen' = FALSE
                 /\ UNCHANGED listSelectionIndex
          [] key = "escape" ->
                 /\ isBackgroundShellListOpen' = FALSE
                 /\ UNCHANGED <<activeBackgroundShellPid, listSelectionIndex>>
          [] OTHER -> UNCHANGED <<activeBackgroundShellPid, isBackgroundShellListOpen,
                                  listSelectionIndex>>

\* The keypress handler with the list open.
listKey(key) ==
    LET n == Len(backgroundShells)
        selectedPid == IF listSelectionIndex < n
                       THEN shellPids[listSelectionIndex + 1]
                       ELSE NoPid
    IN  CASE key = "up" ->
                 /\ listSelectionIndex' = (listSelectionIndex - 1 + n) % n
                 /\ UNCHANGED <<activeBackgroundShellPid, isBackgroundShellListOpen>>
          [] key = "down" ->
                 /\ listSelectionIndex' = (listSelectionIndex + 1) % n
                 /\ UNCHANGED <<activeBackgroundShellPid, isBackgroundShellListOpen>>
          [] key \in {"return", "enter", "ctrl+o"} ->
                 /\ activeBackgroundShellPid' =
                        IF selectedPid # NoPid THEN selectedPid
                        ELSE activeBackgroundShellPid
                 /\ isBackgroundShellListOpen' = FALSE
                 /\ UNCHANGED listSelectionIndex
          [] key = "escape" ->
                 /\ isBackgroundShellListOpen' = FALSE
                 /\ UNCHANGED <<activeBackgroundShellPid, listSelectionIndex>>
          [] OTHER -> UNCHANGED <<activeBackgroundShellPid, isBackgroundShellListOpen,
                                  listSelectionIndex>>

\* The handler useKeypress runs while the view has the focus and an active
\* entry.  Outside the list Ctrl+K dismisses the active entry and Ctrl+O
\* opens the list; the other keys go to ShellExecutionService.writeToPty,
\* which leaves the state of the hook and of the view as it is.
keypress(key) ==
    /\ displayMounted
    /\ HasActiveShell
    /\ IF isBackgroundShellListOpen
       THEN /\ listKey(key)
            /\ NoKill /\ NoThrow
            /\ UNCHANGED <<hookVars, skillsVars, toolVars, statusVars, displayMounted>>
       ELSE IF key = "ctrl+k"
       THEN dismissBackgroundShell(activeBackgroundShellPid)
       ELSE IF key = "ctrl+o"
       THEN /\ isBackgroundShellListOpen' = TRUE
            /\ listSelectionIndex' =
                   SelectionEffect(TRUE, activeBackgroundShellPid, listSelectionIndex)
            /\ NoKill /\ NoThrow
            /\ UNCHANGED <<hookVars, skillsVars, toolVars, statusVars, displayMounted, activeBackgroundShellPid>>
       ELSE /\ NoKill /\ NoThrow
            /\ UNCHANGED <<hookVars, skillsVars, toolVars, statusVars, displayVars>>

\* ------------------------------------------------- the skills command
\* SettingScope
ScopeWorkspace == "Workspace"
ScopeUser      == "User"

\* { type: MessageType.X, text } and the HistoryItemSkillsList
UiMessage(type, text) ==
    [type |-> type, text |-> text, skills |-> {}, showDescriptions |-> FALSE]
SkillsListItem(skills, showDescriptions) ==
    [type |-> "skills_list", text |-> "", skills |-> skills,
     showDescriptions |-> showDescriptions]

\* context.ui.addItem(item, Date.now())
addItem(item) ==
    /\ Len(uiItems) < MaxItems
    /\ uiItems' = Append(uiItems, item)

\* settings.setValue(scope, 'skills.disabled', value): the call is recorded
\* and the list written becomes the current one
setValue(scope, value) ==
    settings' = [settings EXCEPT
                    !.setValueCalls = Append(@, [scope |-> scope, key |-> "skills.disabled",
                                                  value |-> value]),
                    !.disabled = value]

\* settings.workspace.path ? SettingScope.Workspace : SettingScope.User
scopeOf(path) == IF path # "" THEN ScopeWorkspace ELSE ScopeUser

\* Fault: a test of membership that never finds the name.
includesNever(list, name) == FALSE
\* currentDisabled.includes(skillName)
includes(list, name) == \E i \in 1..Len(list) : list[i] = name

\* Fault: the name put in front of the list.
disabledPrepending(currentDisabled, skillName) == <<skillName>> \o currentDisabled
\* [...currentDisabled, skillName]
disabledWith(currentDisabled, skillName) == Append(currentDisabled, skillName)

\* currentDisabled.filter((name) => name !== skillName)
disabledWithout(currentDisabled, skillName) ==
    LET Keep(name) == name # skillName IN SelectSeq(currentDisabled, Keep)

\* subCommands[0].action
disableAction(args) ==
    LET skillName == Trim(args)
        currentDisabled == settings.disabled
        scope == scopeOf(settings.workspacePath)
    IN  IF skillName = ""
        THEN /\ addItem(UiMessage("error", "Please provide a skill name to disable."))
             /\ UNCHANGED settings
        ELSE IF ~(skillManager.present /\ skillName \in skillManager.skills)
        THEN /\ addItem(UiMessage("error", "Skill \"" \o skillName \o "\" not found."))
             /\ UNCHANGED settings
        ELSE IF includes(currentDisabled, skillName)
        THEN /\ addItem(UiMessage("info", "Skill \"" \o skillName \o "\" is already disabled."))
             /\ UNCHANGED settings
        ELSE /\ setValue(scope, disabledWith(currentDisabled, skillName))
             /\ addItem(UiMessage("info",
                    "Skill \"" \o skillName \o "\" disabled in " \o scope
                    \o " settings. Restart required to take effect."))

\* subCommands[1].action
enableAction(args) ==
    LET skillName == Trim(args)
        currentDisabled == settings.disabled
        scope == scopeOf(settings.workspacePath)
    IN  IF skillName = ""
        THEN /\ addItem(UiMessage("error", "Please provide a skill name to enable."))
             /\ UNCHANGED settings
        ELSE IF ~includes(currentDisabled, skillName)
        THEN /\ addItem(UiMessage("info", "Skill \"" \o skillName \o "\" is not disabled."))
             /\ UNCHANGED settings
        ELSE /\ setValue(scope, disabledWithout(currentDisabled, skillName))
             /\ addItem(UiMessage("info",
                    "Skill \"" \o skillName \o "\" enabled in " \o scope
                    \o " settings. Restart required to take effect."))

\* skillsCommand.action: '/skills <args>'
skillsCommandAction(args) ==
    /\ LET subCommand == Trim(args)
       IN  IF StartsWith(subCommand, "disable ")
           THEN disableAction(SubSeq(subCommand, Len("disable ") + 1, Len(subCommand)))
           ELSE IF subCommand = "disable"
           THEN disableAction("")
           ELSE IF StartsWith(subCommand, "enable ")
           THEN enableAction(SubSeq(subCommand, Len("enable ") + 1, Len(subCommand)))
           ELSE IF subCommand = "enable"
           THEN enableAction("")
           ELSE /\ IF ~skillManager.present
                   THEN addItem(UiMessage("error", "Could not retrieve skill manager."))
                   ELSE addItem(SkillsListItem(skillManager.skills,
                                               subCommand \in {"desc", "descriptions"}))
                /\ UNCHANGED settings
    /\ NoKill /\ NoThrow
    /\ UNCHANGED <<hookVars, displayVars, skillManager, toolVars, statusVars>>

\* ------------------------------------------------ the ActivateSkill tool
\* skillManager.getSkills(): the skills of the manager in their order
SkillOrder == <<"skill1", "skill2">>
getSkills ==
    LET Has(name) == name \in skillManager.skills IN SelectSeq(SkillOrder, Has)

\* Array.prototype.join(', ')
RECURSIVE Join(_)
Join(names) ==
    IF names = <<>> THEN ""
    ELSE IF Len(names) = 1 THEN names[1]
    ELSE names[1] \o ", " \o Join(Tail(names))

\* what skillManager.getSkillContent resolves to
NoContent == [name |-> "", body |-> ""]
SkillContent(name) == [name |-> name, body |-> "Instructions of " \o name \o "."]
ToolResult(llmContent, returnDisplay) ==
    [llmContent |-> llmContent, returnDisplay |-> returnDisplay]

\* Fault: the test of the content left out.
contentAlwaysRead(content) == TRUE
\* `content` is truthy
contentRead(content) == content # NoContent

\* ActivateSkillToolInvocation.execute with params.name = skillName;
\* content is what getSkillContent(skillName) resolves to when it is called
execute(skillName, content) ==
    /\ Len(toolResults) < MaxRuns
    /\ skillManager.present
    /\ IF skillName \notin {getSkills[i] : i \in 1..Len(getSkills)}
       THEN /\ toolResults' = Append(toolResults,
                   ToolResult("Error: Skill \"" \o skillName
                              \o "\" not found. Available skills are: " \o Join(getSkills),
                              "Skill \"" \o skillName \o "\" not found."))
            /\ UNCHANGED activateCalls
       ELSE IF ~contentRead(content)
       THEN /\ toolResults' = Append(toolResults,
                   ToolResult("Error: Could not read content for skill \"" \o skillName \o "\".",
                              "Error reading skill \"" \o skillName \o "\"."))
            /\ UNCHANGED activateCalls
       ELSE /\ activateCalls' = Append(activateCalls, skillName)
            /\ toolResults' = Append(toolResults,
                   ToolResult("Skill \"" \o skillName
                              \o "\" activated successfully. Here are its detailed instructions and rules. You MUST follow them strictly:\n\n# Skill: "
                              \o content.name \o "\n" \o content.body,
                              "Skill \"" \o skillName \o "\" activated."))
    /\ NoKill /\ NoThrow
    /\ UNCHANGED <<hookVars, displayVars, skillsVars, statusVars>>

\* --------------------------------------------- the hook status texts
\* the hook emoji, two UTF-16 code units
HookEmoji == "\\ud83e\\ude9d"
\* an ActiveHook; index and total are 0 when they are not given
ActiveHook(name, index, total) == [name |-> name, index |-> index, total |-> total]

\* hookDisplayName: the name, with ` (${index}/${total})` for a hook of a
\* sequence
hookDisplayName(hook) ==
    IF hook.index # 0 /\ hook.total # 0 /\ hook.total > 1
    THEN hook.name \o " (" \o ToString(hook.index) \o "/" \o ToString(hook.total) \o ")"
    ELSE hook.name

\* Fault: the test of the width applied to the first hook too.
fitsFirstToo(currentChars, length, maxChars, i) ==
    ~(currentChars + length + 2 > maxChars)
\* the negation of `currentChars + hookDisplayName.length + 2 > maxChars && i > 0`
fits(currentChars, length, maxChars, i) ==
    ~(currentChars + length + 2 > maxChars /\ i > 0)

\* The loop over activeHooks from index i on (i counts from 0): the names
\* displayed and the number of hooks hidden.
RECURSIVE hooksLoop(_, _, _, _, _)
hooksLoop(hooks, i, currentChars, displayedHooks, maxChars) ==
    IF i >= Len(hooks)
    THEN [displayedHooks |-> displayedHooks, hiddenCount |-> 0]
    ELSE LET name == hookDisplayName(hooks[i + 1])
         IN  IF ~fits(currentChars, Len(name), maxChars, i)
             THEN [displayedHooks |-> displayedHooks, hiddenCount |-> Len(hooks) - i]
             ELSE hooksLoop(hooks, i + 1, currentChars + Len(name) + 2,
                            Append(displayedHooks, name), maxChars)

\* the closure that computes hooksText: prefix is put before the label,
\* overhead is what the label counts besides its length, and the budget is
\* Math.floor(terminalWidth * tenths / 10)
hooksText(hooks, width, prefix, overhead, tenths) ==
    IF Len(hooks) = 0
    THEN [displayedHooks |-> <<>>, hiddenCount |-> 0, result |-> ""]
    ELSE LET label == IF Len(hooks) > 1 THEN "Executing Hooks" ELSE "Executing Hook"
             maxChars == (width * tenths) \div 10
             loop == hooksLoop(hooks, 0, Len(label) + overhead, <<>>, maxChars)
             text == prefix \o label \o ": " \o Join(loop.displayedHooks)
         IN  [displayedHooks |-> loop.displayedHooks,
              hiddenCount |-> loop.hiddenCount,
              result |-> IF loop.hiddenCount > 0
                         THEN text \o "... (+" \o ToString(loop.hiddenCount) \o " more)"
                         ELSE text]

\* HookStatusDisplay renders
renderHookStatusDisplay ==
    /\ hookStatus' = hooksText(activeHooks, terminalWidth, "", 2, 8)
    /\ hookStatus' # hookStatus
    /\ NoKill /\ NoThrow
    /\ UNCHANGED <<hookVars, displayVars, skillsVars, toolVars, activeHooks, terminalWidth,
                   showNotifications, contextSummary>>

\* ContextSummaryDisplay renders
renderContextSummaryDisplay ==
    /\ contextSummary' =
           IF showNotifications
           THEN hooksText(activeHooks, terminalWidth, HookEmoji \o " ", 4, 4)
           ELSE hooksText(<<>>, terminalWidth, HookEmoji \o " ", 4, 4)
    /\ contextSummary' # contextSummary
    /\ NoKill /\ NoThrow
    /\ UNCHANGED <<hookVars, displayVars, skillsVars, toolVars, activeHooks, terminalWidth,
                   showNotifications, hookStatus>>

\* ------------------------------------------------------ specification
Commands       == {"ls"}
InitialOutputs == {Str("i")}
ExitEventCodes == {2}
StreamEvents   == {DataEvent(Str("a")), BinaryDetected, BinaryProgress(1), OtherEvent}

\* The results that differ in what happens to the process and the registry:
\* a plain success, a cancellation, a move to the background.
LifecycleResults ==
    {r \in Results({NoError}, {NoSignal}, {0}, Pids \cup {NoPid}, {"hi\n"}) :
        ~r.rawBinary /\ ~(r.aborted /\ r.backgrounded)}

Next ==
    \/ toggleBackgroundShell
    \/ \E pid \in ToolPids \cup {NoPid} : backgroundCurrentShell(pid)
    \/ \E pid \in Pids : dismissBackgroundShell(pid)
    \/ \E pid \in ToolPids, c \in Commands, o \in InitialOutputs :
          registerBackgroundShell(pid, c, o)
    \/ \E pid \in Pids : toolSpawns(pid)
    \/ \E pid \in Pids, code \in ExitEventCodes : processExit(pid, code)
    \/ \E pid \in Pids, ev \in StreamEvents : subscribedEvent(pid, ev)
    \/ \E e \in Execs, c \in Commands : handleShellCommand(e, c)
    \/ \E e \in Execs, pid \in Pids \cup {NoPid} : executeResolves(e, pid)
    \/ \E e \in Execs, ev \in StreamEvents : onEvent(e, ev)
    \/ \E e \in Execs, r \in LifecycleResults, ended \in BOOLEAN :
          resultResolves(e, r, NoMarker, ended, "ok")
    \/ \E e \in Execs : executeCommandThrows(e, "boom", NoMarker, "ok")

Spec == Init /\ [][Next]_vars

\* One execution with every result the service can resolve, every state of
\* the marker file and both representations of a chunk.
RunErrors    == {NoError, "E"}
RunSignals   == {NoSignal, 9}
RunExitCodes == {0, 1, NoExitCode}
RunOutputs   == {"", " hi\n"}
RunResults   == Results(RunErrors, RunSignals, RunExitCodes, {NoPid, 1}, RunOutputs)
RunMarkers   == {NoMarker, Marker(""), Marker("/work\n"), Marker("/tmp\n")}
RunEvents    == StreamEvents \cup {DataEvent(Ansi("f"))}

NextRun ==
    \/ \E c \in Commands : handleShellCommand(1, c)
    \/ \E pid \in {NoPid, 1} : executeResolves(1, pid)
    \/ \E ev \in RunEvents : onEvent(1, ev)
    \/ backgroundCurrentShell(NoPid)
    \/ \E r \in RunResults, marker \in RunMarkers, ended \in BOOLEAN :
          resultResolves(1, r, marker, ended, "ok")
    \/ executeCommandThrows(1, "boom", NoMarker, "ok")
    \/ \E code \in ExitEventCodes : processExit(1, code)

SpecRun == Init /\ [][NextRun]_vars

\* The same on any target, Windows or not.
SpecPlatform == InitPlatform /\ [][NextRun]_vars

\* Commands of every shape the wrapper tells apart, typed on any target and
\* handed to the service.
WrapCommands ==
    {"ls", " ls ", "ls;", "ls ;", "ls; ", "ls&", "ls &", "a;b", "a&b", "a&&",
     ";", "&", "ls\n", "", " "}

NextWrap ==
    \/ \E c \in WrapCommands : handleShellCommand(1, c)
    \/ \E pid \in {NoPid, 1} : executeResolves(1, pid)

SpecWrap == InitPlatform /\ [][NextWrap]_vars

\* One execution with every way out of it: the results that differ in what
\* happens to the process, an error result, a rejection, the marker file
\* present or not, its I/O failing or not, the caller's AbortSignal and the
\* input focus.
CleanupResults ==
    LifecycleResults
        \cup {[NoResult EXCEPT !.error = "E", !.exitCode = 1, !.pid = 1]}
CleanupMarkers == {NoMarker, Marker("/tmp\n")}

NextCleanup ==
    \/ \E c \in Commands : handleShellCommand(1, c)
    \/ \E pid \in {NoPid, 1} : executeResolves(1, pid)
    \/ \E ev \in StreamEvents : onEvent(1, ev)
    \/ backgroundCurrentShell(NoPid)
    \/ \E r \in CleanupResults, marker \in CleanupMarkers, ended \in BOOLEAN,
          io \in IoOutcomes :
          /\ r.aborted => exec[1].abortSignal # "clear"
          /\ resultResolves(1, r, marker, ended, io)
    \/ \E marker \in CleanupMarkers, io \in IoOutcomes :
          executeCommandThrows(1, "boom", marker, io)
    \/ \E code \in ExitEventCodes : processExit(1, code)
    \/ dismissBackgroundShell(1)
    \/ abortSignalled(1)
    \/ focusShellInput
    \/ childWritesPwd(1)

SpecCleanup == Init /\ [][NextCleanup]_vars

\* Another caller of the hook dismisses an entry while the list is shown.
callerDismisses(pid) ==
    /\ displayMounted /\ isBackgroundShellListOpen
    /\ dismissBackgroundShell(pid)

\* Ctrl+B with entries in the registry shows or hides the view.
viewToggled ==
    /\ Len(backgroundShells) > 0
    /\ toggleBackgroundShell

\* The view over a registry of tool shells: shells are spawned, registered,
\* exit and are dismissed while the view is shown, hidden and driven by keys.
NextDisplay ==
    \/ \E pid \in Pids : serviceSpawns(pid)
    \/ \E pid \in ToolPids, c \in Commands, o \in InitialOutputs :
          registerBackgroundShell(pid, c, o)
    \/ \E pid \in Pids, code \in ExitEventCodes : processExit(pid, code)
    \/ \E pid \in Pids : callerDismisses(pid)
    \/ viewToggled
    \/ displayMounts
    \/ displayUnmounts
    \/ \E pid \in Pids : callerSelects(pid)
    \/ \E key \in Keys : keypress(key)

SpecDisplay == Init /\ [][NextDisplay]_vars

\* The model history fed with result texts of lengths around the limit.
RECURSIVE Repeat(_, _)
Repeat(s, n) ==
    IF n = 0 THEN ""
    ELSE IF n % 2 = 1 THEN s \o Repeat(s, n - 1)
    ELSE LET half == Repeat(s, n \div 2) IN half \o half
TextOfLength(n) ==
    IF n = 0 THEN ""
    ELSE IF n = 1 THEN "a"
    ELSE "a" \o Repeat("x", n - 2) \o "z"
TruncationLengths ==
    {0, 1, MAX_OUTPUT_LENGTH - 1, MAX_OUTPUT_LENGTH, MAX_OUTPUT_LENGTH + 1,
     MAX_OUTPUT_LENGTH + 17, 2 * MAX_OUTPUT_LENGTH}
TruncationTexts ==
    {TextOfLength(n) : n \in TruncationLengths}
        \cup {"out\n... (truncated)", "ok", Repeat("b", MAX_OUTPUT_LENGTH + 1)}

NextTruncate ==
    \E c \in Commands, text \in TruncationTexts : geminiHistoryAdd(c, text)

SpecTruncate == Init /\ [][NextTruncate]_vars

\* The skills command over settings with and without a workspace, with and
\* without a skill manager, and over disabled lists naming a skill that is
\* no longer known.
SkillNames == KnownSkills \cup {"non-existent", "gone"}
SkillsArgs ==
    {"", "desc", "descriptions", "disable", "enable", "disable  ", " disable  skill1 "}
    \cup {"disable " \o n : n \in SkillNames}
    \cup {"enable " \o n : n \in SkillNames}
InitialDisabled == {<<>>, <<"skill1">>, <<"gone", "skill2">>}
InitSkills ==
    /\ HookInit /\ isWindows = FALSE
    /\ skillManager \in {SkillManager(TRUE, KnownSkills), SkillManager(FALSE, {})}
    /\ settings \in {Settings(d, path) : d \in InitialDisabled, path \in {"/workspace", ""}}
    /\ uiItems = <<>>
    /\ StatusInit
NextSkills == \E args \in SkillsArgs : skillsCommandAction(args)
SpecSkills == InitSkills /\ [][NextSkills]_vars

\* Invocations of ActivateSkill over managers with both skills, one skill and
\* no skill, for names known and unknown, with contents read and not read.
InitActivate ==
    /\ HookInit /\ isWindows = FALSE
    /\ skillManager \in {SkillManager(TRUE, k) : k \in SUBSET KnownSkills}
    /\ settings = Settings(<<>>, "/workspace")
    /\ uiItems = <<>>
    /\ StatusInit
NextActivate ==
    \E skillName \in SkillNames :
        \E content \in {NoContent, SkillContent(skillName)} : execute(skillName, content)
SpecActivate == InitActivate /\ [][NextActivate]_vars

\* Both status components rendered for every list of up to MaxHooks hooks,
\* with and without a place in a sequence, on terminals wide and narrow.
Hooks ==
    {ActiveHook("h1", 0, 0), ActiveHook("step", 1, 3),
     ActiveHook("very-long-hook-name-one", 0, 0), ActiveHook("very-long-hook-name-two", 2, 2)}
RECURSIVE HookLists(_)
HookLists(n) ==
    IF n = 0 THEN {<<>>}
    ELSE HookLists(n - 1)
         \cup {Append(l, h) : l \in {k \in HookLists(n - 1) : Len(k) = n - 1}, h \in Hooks}
Widths == {10, 40, 60, 80, 120}
InitStatus ==
    /\ HookInit /\ isWindows = FALSE /\ SkillsInit
    /\ activeHooks \in HookLists(MaxHooks)
    /\ terminalWidth \in Widths
    /\ showNotifications \in BOOLEAN
    /\ hookStatus = NotRendered
    /\ contextSummary = NotRendered
NextStatus ==
    \/ renderHookStatusDisplay
    \/ renderContextSummaryDisplay
SpecStatus == InitStatus /\ [][NextStatus]_vars

\* ------------------------------------------------------------ properties
Entry(pid) == MapGet(backgroundShells, pid)
EntryAfter(pid) == MapGet(backgroundShells', pid)

\* C1: a pid that has an entry in the registry keeps it until
\* dismissBackgroundShell(pid) is called; the exit of its process changes
\* nothing of the entry but its status, to 'exited', and its exit code.
C1_EntryStaysUntilDismissed ==
    [][\A p \in Pids :
          /\ MapHas(backgroundShells, p) /\ ~MapHas(backgroundShells', p)
                => dismissBackgroundShell(p)
          /\ \A code \in ExitEventCodes :
                processExit(p, code) /\ MapHas(backgroundShells, p)
                => /\ MapHas(backgroundShells', p)
                   /\ EntryAfter(p) = [Entry(p) EXCEPT !.status = "exited",
                                                       !.exitCode = code]]_vars

\* an entry outlived its process: the exit listeners ran and it is still there
C1_Witness ==
    \E p \in Pids :
        /\ MapHas(backgroundShells, p)
        /\ ~Alive(p)
        /\ Entry(p).status = "exited"

IsDataInto(x, event) ==
    event.type = "data" /\ ~x.isBinaryStream

C3_EventsGoToOneOwner ==
    [][\A e \in Execs, ev \in RunEvents \ {OtherEvent} :
          onEvent(e, ev) =>
              LET pid == exec[e].executionPid
              IN  IF MapHas(backgroundShells, pid)
                  THEN /\ pendingHistoryItem' = pendingHistoryItem
                       /\ MapKeys(backgroundShells') = MapKeys(backgroundShells)
                       /\ \A q \in MapKeys(backgroundShells) \ {pid} :
                              EntryAfter(q) = Entry(q)
                       /\ \E o \in {Entry(pid).output, exec'[e].cumulativeStdout},
                             b \in BOOLEAN, n \in 0..1 :
                              EntryAfter(pid) = [Entry(pid) EXCEPT
                                                    !.output = o, !.isBinary = b,
                                                    !.binaryBytesReceived = n]
                       /\ ev.type = "binary_detected" => EntryAfter(pid).isBinary
                       /\ ev.type = "binary_progress" =>
                              /\ EntryAfter(pid).isBinary
                              /\ EntryAfter(pid).binaryBytesReceived = ev.bytesReceived
                       /\ IsDataInto(exec[e], ev) /\ interactive =>
                              EntryAfter(pid).output = ev.chunk
                       /\ IsDataInto(exec[e], ev) /\ ~interactive
                          /\ IsString(ev.chunk) /\ IsString(Entry(pid).output) =>
                              EntryAfter(pid).output =
                                  Str(exec[e].cumulativeStdout.v \o ev.chunk.v)
                  ELSE /\ backgroundShells' = backgroundShells
                       /\ pendingHistoryItem.type = "tool_group"
                          /\ pendingHistoryItem.callId = e
                          /\ ev.type # "data" =>
                              /\ pendingHistoryItem'.resultDisplay.t = "string"
                              /\ pendingHistoryItem'.resultDisplay.v # ""
                       /\ pendingHistoryItem.type = "tool_group"
                          /\ pendingHistoryItem.callId = e
                          /\ IsDataInto(exec[e], ev) /\ interactive =>
                              pendingHistoryItem'.resultDisplay = ev.chunk]_vars

\* events reached the entry of a backgrounded child after its pending item
\* was cleared
C3_Witness ==
    \E e \in Execs :
        /\ exec[e].pc = "done"
        /\ MapHas(backgroundShells, exec[e].executionPid)
        /\ Entry(exec[e].executionPid).isBinary
        /\ Entry(exec[e].executionPid).binaryBytesReceived = 1
        /\ pendingHistoryItem = NoItem

\* C4: dismissBackgroundShell(pid) calls ShellExecutionService.kill(pid) when
\* the entry is 'running' and makes no kill call when it is 'exited'; either
\* way the entry is gone when it returns, whatever the process does.
C4_DismissKillsRunningOnly ==
    [][\A p \in Pids :
          dismissBackgroundShell(p) /\ MapHas(backgroundShells, p) =>
              /\ Entry(p).status = "running" => killCall' = p
              /\ Entry(p).status = "exited" => killCall' = NoPid
              /\ ~MapHas(backgroundShells', p)
              /\ proc' = proc]_vars

\* a running entry was dismissed: kill was called, the entry is gone and the
\* process is still alive
C4_Witness ==
    \E p \in Pids :
        /\ killCall = p
        /\ ~MapHas(backgroundShells, p)
        /\ Alive(p)

\* the final tool_group items of execution e in the UI history, with copies
FinalItems(e) ==
    {i \in BagToSet(history) : i.type = "tool_group" /\ i.callId = e}
FinalItemCount(e) ==
    LET RECURSIVE Sum(_)
        Sum(S) == IF S = {} THEN 0
                  ELSE LET i == CHOOSE i \in S : TRUE
                       IN  CopiesIn(i, history) + Sum(S \ {i})
    IN  Sum(FinalItems(e))
\* executions whose result promise resolved, in the order they ran
Resolved == {e \in Execs : exec[e].pc = "done"}
ResolvedBefore(e) == Cardinality({d \in Resolved : d < e})
Canceled(e) == exec[e].pc = "done" /\ exec[e].finalStatus = "Canceled"

C7_StatusByFirstMatch ==
    \A e \in Execs :
        exec[e].pc = "done" =>
            LET r == exec[e].result
                status == exec[e].finalStatus
            IN  /\ r.error # NoError => status = "Error"
                /\ r.error = NoError /\ r.aborted => status = "Canceled"
                /\ r.error = NoError /\ ~r.aborted /\ r.backgrounded =>
                       /\ status = "Success"
                       /\ exec[e].finalOutput =
                              "Command moved to background (PID: "
                                  \o (IF r.pid = NoPid THEN "undefined"
                                      ELSE ToString(r.pid))
                                  \o "). Output hidden. Press Ctrl+B to view."
                /\ r.error = NoError /\ ~r.aborted /\ ~r.backgrounded
                   /\ r.signal # NoSignal => status = "Error"
                /\ r.error = NoError /\ ~r.aborted /\ ~r.backgrounded
                   /\ r.signal = NoSignal /\ r.exitCode # 0 => status = "Error"
                /\ r.error = NoError /\ ~r.aborted /\ ~r.backgrounded
                   /\ r.signal = NoSignal /\ r.exitCode = 0 => status = "Success"

\* a result that passes every test took the status of the first one
C7_Witness ==
    \E e \in Execs :
        /\ exec[e].pc = "done"
        /\ exec[e].result.error # NoError
        /\ exec[e].result.aborted
        /\ exec[e].result.backgrounded
        /\ exec[e].result.signal # NoSignal
        /\ exec[e].result.exitCode # 0
        /\ exec[e].finalStatus = "Error"

\* C8: an entry that is 'exited' stays 'exited' for as long as it exists.
C8_ExitedIsTerminal ==
    [][\A p \in Pids :
          /\ MapHas(backgroundShells, p) /\ Entry(p).status = "exited"
          /\ MapHas(backgroundShells', p)
          => EntryAfter(p).status = "exited"]_vars

\* an exited entry sits in the registry next to a running one
C8_Witness ==
    /\ Len(backgroundShells) = 2
    /\ \E p, q \in Pids :
           /\ MapHas(backgroundShells, p) /\ Entry(p).status = "exited"
           /\ MapHas(backgroundShells, q) /\ Entry(q).status = "running"

\* C9: an entry has an exit code exactly when its status is 'exited'.
C9_ExitCodeIffExited ==
    \A i \in 1..Len(backgroundShells) :
        (backgroundShells[i].exitCode # NoExitCode)
            <=> (backgroundShells[i].status = "exited")

\* the child of a backgrounded execution ended and its entry has the code
C9_Witness ==
    \E e \in Execs, code \in ExitEventCodes :
        /\ exec[e].pc = "done"
        /\ exec[e].result.backgrounded
        /\ MapHas(backgroundShells, exec[e].executionPid)
        /\ Entry(exec[e].executionPid).status = "exited"
        /\ Entry(exec[e].executionPid).exitCode = code

\* C10: isBinary of an entry, and isBinaryStream of an execution whose
\* callback can still be called, never go from true to false.
CallbackLive(x, procNow) ==
    x.pc = "running" \/ (x.executionPid # NoPid /\ procNow[x.executionPid] = "fg")

C11_ExitFrame ==
    [][\A p \in Pids, code \in ExitEventCodes :
          processExit(p, code) =>
              IF MapHas(backgroundShells, p)
              THEN /\ MapHas(backgroundShells', p)
                   /\ EntryAfter(p).status = "exited"
                   /\ EntryAfter(p).exitCode = code
                   /\ EntryAfter(p).pid = Entry(p).pid
                   /\ EntryAfter(p).command = Entry(p).command
                   /\ EntryAfter(p).output = Entry(p).output
                   /\ EntryAfter(p).isBinary = Entry(p).isBinary
                   /\ EntryAfter(p).binaryBytesReceived = Entry(p).binaryBytesReceived
                   /\ \A q \in MapKeys(backgroundShells) \ {p} :
                          MapHas(backgroundShells', q) /\ EntryAfter(q) = Entry(q)
                   /\ backgroundShellCount' = countRunningShells(backgroundShells')
              ELSE UNCHANGED registryVars]_vars

\* a binary entry with output exited next to another entry, and is counted out
C11_Witness ==
    \E p \in Pids :
        /\ Len(backgroundShells) = 2
        /\ MapHas(backgroundShells, p)
        /\ Entry(p).status = "exited"
        /\ Entry(p).exitCode \in ExitEventCodes
        /\ Entry(p).binaryBytesReceived = 1
        /\ Entry(p).output # Str("")
        /\ backgroundShellCount = 1

\* C12: an entry whose process exits is the last entry of the registry in
\* iteration order afterwards, and the entries that were running beside it
\* are still 'running'.
C12_ExitedEntryMovesLast ==
    [][\A p \in Pids, code \in ExitEventCodes :
          processExit(p, code) /\ MapHas(backgroundShells, p) =>
              /\ MapHas(backgroundShells', p)
              /\ MapIndex(backgroundShells', p) = Len(backgroundShells')
              /\ \A q \in MapKeys(backgroundShells) \ {p} :
                     EntryAfter(q).status = Entry(q).status]_vars

\* C13: registerBackgroundShell for a pid that has an entry changes neither
\* the registry (entries, their fields, their order), nor the listeners
\* installed, nor the running count, whatever command and initialOutput it is
\* given.
AnyCommands == Commands \cup {"pwd"}
AnyOutputs  == InitialOutputs \cup {Str(""), Ansi("f")}

C13_RegisterIdempotent ==
    [][\A p \in Pids, c \in AnyCommands, o \in AnyOutputs :
          registerBackgroundShell(p, c, o) /\ MapHas(backgroundShells, p)
          => UNCHANGED <<backgroundShells, backgroundShellCount,
                         isBackgroundShellVisible, regs, exitHooks>>]_vars

\* a registered entry whose output and status moved on from what register
\* wrote, still with the one pair of listeners
C13_Witness ==
    \E p \in Pids :
        /\ MapHas(backgroundShells, p)
        /\ regs[p] = 1
        /\ Entry(p).output \notin InitialOutputs
        /\ Entry(p).status = "exited"

\* C14: once an execution is over and its child has ended, the marker file of
\* the execution does not exist.
Over(x) == x.pc \in {"done", "failed"}
ChildGone(x) == x.executionPid = NoPid \/ ~Alive(x.executionPid)

C14_NoMarkerLeftBehind ==
    \A e \in Execs : Over(exec[e]) /\ ChildGone(exec[e]) => ~exec[e].pwdFile

\* the marker file of a backgrounded command that ran to its end
C14_BackgroundedLeavesMarker ==
    \E e \in Execs :
        /\ exec[e].pc = "done" /\ exec[e].result.backgrounded
        /\ ChildGone(exec[e])
        /\ exec[e].pwdFile

\* C15: the step that ends an execution, whichever way, leaves the active pid
\* null, the shell input focus false and the pending item null.
Ends(e) == ~Over(exec[e]) /\ Over(exec'[e])

C15_EveryExitResets ==
    [][\A e \in Execs :
          Ends(e) => /\ activeShellPtyId' = NoPid
                     /\ shellInputFocused' = FALSE
                     /\ pendingHistoryItem' = NoItem]_vars

\* an execution ended while the input focus was in its shell, and the focus
\* and the active pid are as they were
C15_FocusLeftBehind ==
    \E e \in Execs :
        /\ Over(exec[e])
        /\ shellInputFocused
        /\ activeShellPtyId = exec[e].executionPid
        /\ activeShellPtyId # NoPid
        /\ pendingHistoryItem = NoItem

\* C16: a step in which execute or the result promise rejects, or the marker
\* file cannot be read or unlinked, adds one 'An unexpected error occurred'
\* item to the UI history and still removes the abort listener, leaves no
\* marker file and resets the active pid and the input focus.
ErrorItemCount(h, e) ==
    LET items == {i \in BagToSet(h) : i.type = "error" /\ i.callId = e}
        RECURSIVE Sum(_)
        Sum(S) == IF S = {} THEN 0
                  ELSE LET i == CHOOSE i \in S : TRUE
                       IN  CopiesIn(i, h) + Sum(S \ {i})
    IN  Sum(items)
Raises(e) ==
    \/ \E marker \in CleanupMarkers, io \in IoOutcomes :
           executeCommandThrows(e, "boom", marker, io)
    \/ \E r \in CleanupResults, marker \in CleanupMarkers, ended \in BOOLEAN,
          io \in IoOutcomes \ {"ok"} :
           marker.exists /\ resultResolves(e, r, marker, ended, io)

C16_ExceptionReportedAndCleaned ==
    [][\A e \in Execs :
          Raises(e) =>
              /\ ErrorItemCount(history', e) = ErrorItemCount(history, e) + 1
              /\ \A i \in BagToSet(history') :
                     i.type = "error" /\ i.callId = e =>
                         SubSeq(i.text, 1, 29) = "An unexpected error occurred:"
              /\ ~exec'[e].abortListener
              /\ ~exec'[e].pwdFile
              /\ activeShellPtyId' = NoPid
              /\ shellInputFocused' = FALSE]_vars

\* an execution completed with its final item in the history, no error item,
\* and its marker file still there: unlinkSync threw in the finally block
C16_UnreportedUnlinkFailure ==
    \E e \in Execs :
        /\ exec[e].pc = "done"
        /\ exec[e].pwdFile
        /\ ChildGone(exec[e])
        /\ ErrorItemCount(history, e) = 0
        /\ FinalItemCount(e) = 1
        /\ activeShellPtyId # NoPid

\* C17, as stated: a token cancelled before or while the command runs has
\* its observer called exactly once, and a token cancelled after the
\* execution is over never has, the observer being deregistered by then.
C17_ObserverCalledOnce ==
    \A e \in Execs :
        /\ exec[e].abortSignal \in {"before", "during"} => exec[e].abortCalls = 1
        /\ exec[e].abortSignal = "after" => exec[e].abortCalls = 0
        /\ Over(exec[e]) => ~exec[e].abortListener

\* C17, amended: a token cancelled between the call of handleShellCommand and
\* the end of the execution has its observer called exactly once; a token
\* that is already cancelled when handleShellCommand is called, or cancelled
\* after the execution is over, never has; the observer is deregistered once
\* the execution is over.
C17_ObserverCalledOnceIfRegistered ==
    \A e \in Execs :
        /\ exec[e].abortSignal = "during" => exec[e].abortCalls = 1
        /\ exec[e].abortSignal \in {"clear", "before", "after"} =>
               exec[e].abortCalls = 0
        /\ Over(exec[e]) => ~exec[e].abortListener

\* a command was cancelled while it ran, ended Canceled, and the observer was
\* called once
C17_Witness ==
    \E e \in Execs :
        /\ exec[e].pc = "done"
        /\ exec[e].result.aborted
        /\ exec[e].abortSignal = "during"
        /\ exec[e].abortCalls = 1

\* ------------------------------------------------------------- C18
\* The state a streaming event handler may write: everything but the
\* per-step records of the service calls and of the error thrown.
handlerState == <<activeShellPtyId, backgroundShells, backgroundShellCount,
                  isBackgroundShellVisible, pendingHistoryItem, history,
                  geminiHistory, exec, interactive, shellInputFocused>>

\* C18: a streaming event whose kind is not data, binary_detected or
\* binary_progress is never silently ignored: the handler that receives it,
\* the foreground callback or the registry's streaming listener, throws an
\* error and updates no state for that event.
C18_UnknownEventFailsLoudly ==
    [][ /\ \A e \in Execs : onEvent(e, OtherEvent)
              => uncaught' # "" /\ UNCHANGED handlerState
        /\ \A pid \in Pids : subscribedEvent(pid, OtherEvent)
              => uncaught' # "" /\ UNCHANGED handlerState ]_vars

\* A registered tool shell is running with its streaming listener installed:
\* the state in which the registry's listener receives events.
C18_Witness ==
    \E pid \in Pids : /\ proc[pid] = "tool"
                      /\ regs[pid] > 0
                      /\ MapHas(backgroundShells, pid)
                      /\ MapGet(backgroundShells, pid).status = "running"

\* ------------------------------------------------------------- C19
\* What the background shell panel shows of an entry: its output field.
displayedOutput(shell) == shell.output

\* The fixed texts shown in place of binary output.
BinaryPlaceholders ==
    {Str("[Binary output detected. Halting stream...]"),
     Str("[Command produced binary output, which is not shown.]")}
        \cup {Str("[Receiving binary output... "
                      \o formatMemoryUsage(ev.bytesReceived) \o " received]") :
                 ev \in {x \in RunEvents : x.type = "binary_progress"}}

\* the live display of execution e was rewritten in this step
LiveDisplayWritten(e) ==
    /\ pendingHistoryItem'.type = "tool_group"
    /\ pendingHistoryItem'.callId = e
    /\ pendingHistoryItem'.resultDisplay # pendingHistoryItem.resultDisplay
\* the panel's output of pid was produced in this step: the entry is new or
\* its displayed output changed
EntryDisplayWritten(pid) ==
    /\ MapHas(backgroundShells', pid)
    /\ \/ ~MapHas(backgroundShells, pid)
       \/ displayedOutput(EntryAfter(pid)) # displayedOutput(Entry(pid))
\* the final display of execution e was produced in this step
FinalDisplayWritten(e) ==
    /\ exec[e].pc = "running"
    /\ exec'[e].pc = "done"
    /\ ~exec'[e].result.backgrounded

\* C19: once binary_detected has fired for a session, every display output
\* produced for it afterwards, the live foreground display, the displayed
\* output of its background entry and the final result display, is one of the
\* fixed binary placeholders and never raw data.
C19_BinaryShowsPlaceholderOnly ==
    [][/\ \A e \in Execs :
             exec'[e].isBinaryStream /\ LiveDisplayWritten(e)
                 => pendingHistoryItem'.resultDisplay \in BinaryPlaceholders
       /\ \A pid \in Pids :
             EntryDisplayWritten(pid) /\ EntryAfter(pid).isBinary
                 => displayedOutput(EntryAfter(pid)) \in BinaryPlaceholders
       /\ \A e \in Execs :
             exec[e].isBinaryStream /\ FinalDisplayWritten(e)
                 => Str(mainContent(exec'[e].result)) \in BinaryPlaceholders]_vars

\* A registered tool shell whose stream was detected binary shows the chunk a
\* later data event carried.
C19_Witness ==
    \E pid \in Pids :
        /\ proc[pid] = "tool"
        /\ MapHas(backgroundShells, pid)
        /\ Entry(pid).isBinary
        /\ displayedOutput(Entry(pid)) \in {ev.chunk : ev \in {x \in StreamEvents : x.type = "data"}}

\* ------------------------------------------------------------- C20
\* the live display of the running execution
LiveDisplay == pendingHistoryItem.resultDisplay
\* execution e is running and no binary event has reached its callback
TextSoFar(e) ==
    /\ exec[e].pc = "running"
    /\ ~exec[e].isBinaryStream
    /\ pendingHistoryItem.type = "tool_group"
    /\ pendingHistoryItem.callId = e

\* C20: over a sequence of data events with no binary_detected or
\* binary_progress event, the live foreground display starts empty and after
\* each event is, in text mode (string chunks, interactive shell off), the
\* display before the event with the chunk appended, hence the concatenation
\* of all chunks so far, and in structured mode (interactive shell on) the
\* chunk of the event alone; the mode is the same for the whole sequence.
C20_DisplayIsConcatOrLatest ==
    [][/\ \A e \in Execs, c \in Commands :
             handleShellCommand(e, c) => LiveDisplay' = Str("")
       /\ \A e \in Execs, pid \in Pids \cup {NoPid} :
             executeResolves(e, pid) => LiveDisplay' = LiveDisplay
       /\ \A e \in Execs, ev \in RunEvents :
             /\ ev.type = "data"
             /\ TextSoFar(e)
             /\ onEvent(e, ev)
             => /\ interactive' = interactive
                /\ IF interactive
                   THEN LiveDisplay' = ev.chunk
                   ELSE IsString(ev.chunk)
                            => /\ IsString(LiveDisplay)
                               /\ LiveDisplay' = Str(LiveDisplay.v \o ev.chunk.v)]_vars

\* In text mode two chunks have arrived and the display shows both.
C20_Witness ==
    /\ ~interactive
    /\ TextSoFar(1)
    /\ LiveDisplay = Str("aa")

\* ------------------------------------------------------------- C21
\* C21: after every registerBackgroundShell and every dismissBackgroundShell,
\* the background view is visible if and only if the registry has at least
\* one entry.
C21_VisibleIffNonEmpty ==
    [][(\/ \E pid \in Pids, c \in Commands, o \in InitialOutputs :
              registerBackgroundShell(pid, c, o)
        \/ \E pid \in Pids : dismissBackgroundShell(pid))
       => (isBackgroundShellVisible' <=> Len(backgroundShells') > 0)]_vars

\* The registry has an entry and the view was never opened.
C21_Witness ==
    /\ Len(backgroundShells) > 0
    /\ ~isBackgroundShellVisible

\* ------------------------------------------------------------- C22
\* C22, as stated: the view chooses its mode when an entry is registered: with
\* the view shown, a registration that leaves at least 2 entries opens the
\* list, and one that leaves exactly 1 entry leaves the single-entry view.
C22_ModeChosenAtRegistration ==
    [][\A pid \in Pids, c \in Commands, o \in InitialOutputs :
          /\ registerBackgroundShell(pid, c, o)
          /\ Len(backgroundShells') > Len(backgroundShells)
          /\ displayMounted
          => /\ Len(backgroundShells') >= 2 => isBackgroundShellListOpen'
             /\ Len(backgroundShells') = 1 => ~isBackgroundShellListOpen']_vars

\* C22: the view chooses its mode from the number of entries when it mounts:
\* it opens to the list when the registry has at least 2 entries and to the
\* single-entry view when it has exactly 1; a registration while the view is
\* shown leaves the mode as it is.
C22_ModeChosenAtMount ==
    [][/\ displayMounts
          => /\ Len(backgroundShells) >= 2 => isBackgroundShellListOpen'
             /\ Len(backgroundShells) = 1 => ~isBackgroundShellListOpen'
       /\ \A pid \in Pids, c \in Commands, o \in InitialOutputs :
             registerBackgroundShell(pid, c, o)
                 => isBackgroundShellListOpen' = isBackgroundShellListOpen]_vars

\* The view mounted over two entries and shows the list; no entry was ever
\* active, so no key opened it.
C22_Witness ==
    /\ displayMounted
    /\ isBackgroundShellListOpen
    /\ Len(backgroundShells) >= 2
    /\ activeBackgroundShellPid = NoPid

\* ------------------------------------------------------------- C23
\* every entry but that of pid is after the step what it was before it
OtherEntriesKept(pid) ==
    \A q \in Pids \ {pid} :
        /\ MapHas(backgroundShells', q) <=> MapHas(backgroundShells, q)
        /\ MapHas(backgroundShells, q) => EntryAfter(q) = Entry(q)
\* the pending item shows an execution other than e
PendingOfOther(e) ==
    pendingHistoryItem.type = "tool_group" /\ pendingHistoryItem.callId # e

\* C23: a streaming event or an exit event of pid p leaves the entry of every
\* other pid as it is, and a streaming event of execution e leaves the
\* entries of the pids that are not its own and the pending display of any
\* other execution as they are, also when it arrives after e has completed
\* or after its entry was dismissed.
C23_SessionsDoNotInterfere ==
    [][/\ \A p \in Pids, ev \in StreamEvents :
             subscribedEvent(p, ev) => OtherEntriesKept(p)
       /\ \A p \in Pids, code \in ExitEventCodes :
             processExit(p, code) => OtherEntriesKept(p)
       /\ \A e \in Execs, ev \in StreamEvents :
             onEvent(e, ev)
                 => /\ OtherEntriesKept(exec[e].executionPid)
                    /\ PendingOfOther(e) => pendingHistoryItem' = pendingHistoryItem]_vars

\* The first execution is over, its child is alive with no entry (the entry
\* was dismissed), and the pending display is that of the second execution.
C23_Witness ==
    /\ exec[1].pc = "done"
    /\ Alive(exec[1].executionPid)
    /\ exec[1].result.backgrounded
    /\ ~MapHas(backgroundShells, exec[1].executionPid)
    /\ exec[2].pc = "running"
    /\ PendingOfOther(1)

\* ------------------------------------------------------------- C24
TruncationMarker == "\n... (truncated)"
\* the modelContent of the entry the step added to the model history
AddedContent == geminiHistory'[Len(geminiHistory')].modelContent

\* C24: the copy of a result text sent to the model history is the text
\* itself when the text has at most 10000 characters, and otherwise its first
\* 10000 characters followed by '\n... (truncated)'; the marker is appended
\* if and only if the text was cut.
C24_TruncatedAtLimit ==
    [][\A c \in Commands, text \in TruncationTexts :
          geminiHistoryAdd(c, text)
              => /\ Len(geminiHistory') = Len(geminiHistory) + 1
                 /\ IF Len(text) <= 10000
                    THEN AddedContent = text
                    ELSE /\ Len(AddedContent) = 10000 + Len(TruncationMarker)
                         /\ SubSeq(AddedContent, 1, 10000) = SubSeq(text, 1, 10000)
                         /\ EndsWith(AddedContent, TruncationMarker)
                 /\ (AddedContent # text) <=> Len(text) > 10000]_vars

\* A text of 10001 characters and one of exactly 10000 have been added: the
\* first cut and marked, the second whole.
C24_Witness ==
    /\ Len(geminiHistory) = 2
    /\ Len(geminiHistory[1].modelContent) = 10000 + Len(TruncationMarker)
    /\ EndsWith(geminiHistory[1].modelContent, TruncationMarker)
    /\ geminiHistory[2].modelContent = TextOfLength(10000)

\* ------------------------------------------------------------- C25
\* the result of a command that ran to a non-zero exit code
ExitedNonZero(r) ==
    /\ r.error = NoError /\ ~r.aborted /\ ~r.backgrounded /\ r.signal = NoSignal
    /\ r.exitCode \notin {0, NoExitCode}
\* what precedes the status line: the stateless-shell warning and a blank
\* line when the marker file tells of another directory, else nothing
WarningPrefix(marker) ==
    IF marker.exists /\ Trim(marker.content) # "" /\ Trim(marker.content) # TargetDir
    THEN "WARNING: shell mode is stateless; the directory change to '"
             \o Trim(marker.content) \o "' will not persist.\n\n"
    ELSE ""

\* C25, as stated: a command that completes with a non-zero exit code n, no
\* error, not aborted, not backgrounded and no signal, has final status Error
\* and a final display that starts with 'Command exited with code n.'; a
\* cancelled command has a final display that starts with 'Command was
\* cancelled.'.
C25_DisplayStartsWithStatusLine ==
    \A e \in Execs :
        exec[e].pc = "done" =>
            LET r == exec[e].result
            IN  /\ ExitedNonZero(r) =>
                       /\ exec[e].finalStatus = "Error"
                       /\ StartsWith(exec[e].finalOutput,
                              "Command exited with code " \o ToString(r.exitCode) \o ".")
                /\ r.aborted => StartsWith(exec[e].finalOutput, "Command was cancelled.")

\* C25: for a command that completes with a non-zero exit code n (no error,
\* not aborted, not backgrounded, no signal) the final status is Error and the
\* final display is the stateless-shell warning, if one is due, followed by
\* text that starts with 'Command exited with code n.'; for a cancelled
\* command whose result carries no error the final status is Canceled and the
\* display is the warning, if due, followed by text that starts with
\* 'Command was cancelled.'.
C25_StatusLineAfterWarning ==
    [][\A e \in Execs :
          exec[e].pc = "running" /\ exec'[e].pc = "done" =>
              LET r == exec'[e].result
              IN  \A marker \in RunMarkers, ended \in BOOLEAN :
                      resultResolves(e, r, marker, ended, "ok")
                          => /\ ExitedNonZero(r) =>
                                   /\ exec'[e].finalStatus = "Error"
                                   /\ StartsWith(exec'[e].finalOutput,
                                          WarningPrefix(marker)
                                              \o "Command exited with code "
                                              \o ToString(r.exitCode) \o ".")
                             /\ r.aborted /\ r.error = NoError =>
                                   /\ exec'[e].finalStatus = "Canceled"
                                   /\ StartsWith(exec'[e].finalOutput,
                                          WarningPrefix(marker)
                                              \o "Command was cancelled.")]_vars

\* A command ended with exit code 1 in another directory: its display starts
\* with the warning and goes on with the exit line.
C25_Witness ==
    /\ exec[1].pc = "done"
    /\ ExitedNonZero(exec[1].result)
    /\ StartsWith(exec[1].finalOutput,
           WarningPrefix(Marker("/tmp\n")) \o "Command exited with code 1.")

\* ------------------------------------------------------------- C26
\* the marker file tells of a directory other than the launch directory
TellsOfOtherDir(marker) ==
    marker.exists /\ Trim(marker.content) # "" /\ Trim(marker.content) # TargetDir

\* C26: the stateless-shell warning is put in front of the final output if
\* and only if the command was wrapped (the target is not Windows), the marker
\* file exists at completion and its trimmed content is not empty and is not
\* the launch directory; on Windows the command is passed as typed and the
\* warning is never produced.
C26_WarningIffWrappedAndMoved ==
    [][\A e \in Execs :
          /\ \A c \in Commands :
                handleShellCommand(e, c)
                    => /\ exec'[e].pwdFilePath = ~isWindows
                       /\ isWindows => exec'[e].commandToExecute = c
                       /\ ~isWindows => exec'[e].commandToExecute # c
          /\ exec[e].pc = "running" /\ exec'[e].pc = "done" =>
                LET r == exec'[e].result
                IN  \A marker \in RunMarkers, ended \in BOOLEAN :
                        resultResolves(e, r, marker, ended, "ok")
                            => exec'[e].finalOutput =
                                   IF ~isWindows /\ TellsOfOtherDir(marker)
                                   THEN WarningPrefix(marker) \o statusOutput(r)
                                   ELSE statusOutput(r)]_vars

\* A wrapped command ended in /tmp and its output starts with the warning.
C26_Witness ==
    /\ ~isWindows
    /\ exec[1].pc = "done"
    /\ exec[1].pwdFilePath
    /\ StartsWith(exec[1].finalOutput,
           "WARNING: shell mode is stateless; the directory change to '/tmp' will not persist.")

\* ------------------------------------------------------------- C27
WrapperTail == " }; __code=$?; pwd > \"" \o PwdFilePath \o "\"; exit $__code"
\* the text between the braces of a wrapped command
Grouped(wrapped) == SubSeq(wrapped, 3, Len(wrapped) - Len(WrapperTail))

\* C27: on a target that is not Windows every non-empty command is wrapped
\* as '{ ' + command + ' }; __code=$?; pwd > "file"; exit $__code': it ends
\* with 'exit $__code', __code is assigned from $? right after the group, and
\* the group holds the trimmed command, followed by one ';' exactly when the
\* trimmed command ends with neither ';' nor '&'.
C27_WrappedEndsWithExitCode ==
    [][\A c \in WrapCommands :
          handleShellCommand(1, c) /\ ~isWindows =>
              LET wrapped == exec'[1].commandToExecute
                  trimmed == Trim(c)
                  separated == EndsWith(trimmed, ";") \/ EndsWith(trimmed, "&")
              IN  /\ Trim(c) # ""
                  /\ EndsWith(wrapped, "; exit $__code")
                  /\ StartsWith(wrapped, "{ ")
                  /\ EndsWith(wrapped, WrapperTail)
                  /\ StartsWith(Grouped(wrapped), trimmed)
                  /\ separated => Grouped(wrapped) = trimmed
                  /\ ~separated => Grouped(wrapped) = trimmed \o ";"]_vars

\* Two commands were wrapped, one that needed the separator and one that
\* came with its own.
C27_Witness ==
    /\ ~isWindows
    /\ exec[1].pc = "running"
    /\ exec[1].rawQuery = "ls &"
    /\ exec[1].commandToExecute =
           "{ ls & }; __code=$?; pwd > \"" \o PwdFilePath \o "\"; exit $__code"

\* ------------------------------------------------------------- C28
ListKeys == {"up", "down", "return", "enter", "ctrl+o", "escape"}
\* the pid of the entry at the selection index, if the index has an entry
SelectedPid ==
    IF listSelectionIndex < Len(backgroundShells)
    THEN backgroundShells[listSelectionIndex + 1].pid
    ELSE NoPid

\* C28: with the list open, 'up' and 'down' move the selection cyclically
\* through the entries in the order of the registry, Enter and Ctrl+O make
\* the entry at the selection index the active one and close the list, and
\* Escape only closes the list; none of these keys adds, removes, reorders or
\* changes an entry of the registry, the running count or the visibility, and
\* none of them calls ShellExecutionService.kill.
C28_SelectingLeavesRegistry ==
    [][\A key \in ListKeys :
          keypress(key) /\ isBackgroundShellListOpen =>
              LET n == Len(backgroundShells)
              IN  /\ UNCHANGED registryVars
                  /\ killCall' = NoPid
                  /\ key = "up" =>
                         /\ listSelectionIndex' =
                                IF listSelectionIndex = 0 THEN n - 1
                                ELSE (listSelectionIndex - 1) % n
                         /\ UNCHANGED <<activeBackgroundShellPid, isBackgroundShellListOpen>>
                  /\ key = "down" =>
                         /\ listSelectionIndex' =
                                IF listSelectionIndex >= n - 1
                                THEN (listSelectionIndex + 1) % n
                                ELSE listSelectionIndex + 1
                         /\ UNCHANGED <<activeBackgroundShellPid, isBackgroundShellListOpen>>
                  /\ key \in {"return", "enter", "ctrl+o"} =>
                         /\ SelectedPid # NoPid => activeBackgroundShellPid' = SelectedPid
                         /\ SelectedPid = NoPid => UNCHANGED activeBackgroundShellPid
                         /\ ~isBackgroundShellListOpen'
                  /\ key = "escape" =>
                         /\ ~isBackgroundShellListOpen'
                         /\ UNCHANGED <<activeBackgroundShellPid, listSelectionIndex>>]_vars

\* The third of three entries was chosen in the list and is the active one.
C28_Witness ==
    /\ displayMounted
    /\ Len(backgroundShells) = 3
    /\ ~isBackgroundShellListOpen
    /\ listSelectionIndex = 2
    /\ activeBackgroundShellPid = backgroundShells[3].pid

\* ------------------------------------------------------------- C29
\* the names a list holds
NamesIn(list) == {list[i] : i \in 1..Len(list)}
\* a list without every occurrence of a name
RECURSIVE Removed(_, _)
Removed(list, name) ==
    IF list = <<>> THEN <<>>
    ELSE IF Head(list) = name THEN Removed(Tail(list), name)
    ELSE <<Head(list)>> \o Removed(Tail(list), name)
\* the scope a write must go to
ExpectedScope == IF settings.workspacePath = "" THEN "User" ELSE "Workspace"
\* the step calls settings.setValue once, with this list for 'skills.disabled'
Writes(list) ==
    /\ settings'.setValueCalls =
           Append(settings.setValueCalls,
                  [scope |-> ExpectedScope, key |-> "skills.disabled", value |-> list])
    /\ settings'.disabled = list
\* the command before this one was the disabling of the skill
JustDisabled(name) ==
    /\ Len(uiItems) > 0
    /\ StartsWith(uiItems[Len(uiItems)].text, "Skill \"" \o name \o "\" disabled in ")

\* C29: '/skills disable <name>' of a skill the manager knows and the
\* disabled list does not hold writes 'skills.disabled' as the list with the
\* name appended; '/skills enable <name>' of a name in the list writes the
\* list without the name; an enable right after the disable of the same name
\* writes the list as it was before the disable; the write goes to the
\* Workspace scope when the workspace has a path and to the User scope
\* otherwise.
C29_DisableThenEnableRestores ==
    [][\A name \in SkillNames :
          LET d == settings.disabled
          IN  /\ (/\ skillsCommandAction("disable " \o name)
                  /\ skillManager.present /\ name \in skillManager.skills
                  /\ name \notin NamesIn(d))
                 => Writes(d \o <<name>>)
              /\ (skillsCommandAction("enable " \o name) /\ name \in NamesIn(d))
                 => /\ Writes(Removed(d, name))
                    /\ JustDisabled(name) => settings'.disabled = SubSeq(d, 1, Len(d) - 1)]_vars

\* Without a workspace, "skill1" was disabled after two other names and then
\* enabled again.
C29_Witness ==
    /\ settings.workspacePath = ""
    /\ Len(settings.setValueCalls) = 2
    /\ settings.setValueCalls[1] =
           [scope |-> "User", key |-> "skills.disabled", value |-> <<"gone", "skill2", "skill1">>]
    /\ settings.setValueCalls[2].value = <<"gone", "skill2">>
    /\ settings.disabled = <<"gone", "skill2">>

\* ------------------------------------------------------------- C30
\* the step adds one item to the UI and leaves the settings alone
OneItemNoWrite ==
    /\ Len(uiItems') = Len(uiItems) + 1
    /\ UNCHANGED settings

\* C30: '/skills disable' with an empty name, with a name the skill manager
\* does not know (reported as 'Skill "<name>" not found.') or with a name
\* that is disabled already, and '/skills enable' with an empty name or a
\* name that is not disabled, each add one item to the UI and never call
\* settings.setValue; a call of settings.setValue changes the disabled list.
C30_WritesOnlyOnChange ==
    [][/\ \A args \in {"disable", "disable  ", "enable"} :
             skillsCommandAction(args) => OneItemNoWrite
       /\ \A name \in SkillNames :
             /\ (/\ skillsCommandAction("disable " \o name)
                 /\ ~(skillManager.present /\ name \in skillManager.skills))
                => /\ OneItemNoWrite
                   /\ uiItems'[Len(uiItems')].type = "error"
                   /\ uiItems'[Len(uiItems')].text = "Skill \"" \o name \o "\" not found."
             /\ (/\ skillsCommandAction("disable " \o name)
                 /\ name \in NamesIn(settings.disabled))
                => OneItemNoWrite
             /\ (/\ skillsCommandAction("enable " \o name)
                 /\ name \notin NamesIn(settings.disabled))
                => OneItemNoWrite
       /\ settings'.setValueCalls # settings.setValueCalls
              => settings'.disabled # settings.disabled]_vars

\* An unknown name, a name disabled already and a name that is not disabled
\* were each answered with a message, and nothing was written.
C30_Witness ==
    /\ settings.setValueCalls = <<>>
    /\ \E i \in 1..Len(uiItems) : uiItems[i].text = "Skill \"non-existent\" not found."
    /\ \E i \in 1..Len(uiItems) : uiItems[i].text = "Skill \"skill1\" is already disabled."
    /\ \E i \in 1..Len(uiItems) : uiItems[i].text = "Skill \"skill2\" is not disabled."

\* ------------------------------------------------------------- C31
IsErrorResult(r) == StartsWith(r.llmContent, "Error: ")

\* C31: an execution of ActivateSkill calls skillManager.activateSkill(name)
\* if and only if the manager lists a skill of that name and the content of
\* the skill was read; when the skill is missing or its content was not read
\* the invocation returns an error result and activates nothing.
C31_ActivatesIffPresentAndReadable ==
    [][\A skillName \in SkillNames :
       \A content \in {NoContent, SkillContent(skillName)} :
          execute(skillName, content) =>
              LET listed   == skillName \in skillManager.skills
                  readable == content # NoContent
              IN  /\ (listed /\ readable) =>
                         /\ activateCalls' = Append(activateCalls, skillName)
                         /\ ~IsErrorResult(toolResults'[Len(toolResults')])
                  /\ ~(listed /\ readable) =>
                         /\ UNCHANGED activateCalls
                         /\ IsErrorResult(toolResults'[Len(toolResults')])]_vars

\* A listed skill was activated, a listed skill whose content was not read
\* was not, and a name that is not listed was not.
C31_Witness ==
    /\ activateCalls = <<"skill1">>
    /\ Len(toolResults) = 3
    /\ \E i \in 1..3 : toolResults[i].returnDisplay = "Error reading skill \"skill1\"."
    /\ \E i \in 1..3 : toolResults[i].returnDisplay = "Skill \"non-existent\" not found."

\* ------------------------------------------------------------- C32
\* the place of a call among the calls of a branch, 0 when it is not made
RECURSIVE PlaceOf(_, _)
PlaceOf(calls, call) ==
    IF calls = <<>> THEN 0
    ELSE IF calls[Len(calls)] = call /\ PlaceOf(SubSeq(calls, 1, Len(calls) - 1), call) = 0
    THEN Len(calls)
    ELSE PlaceOf(SubSeq(calls, 1, Len(calls) - 1), call)
\* the call is made, and made before setActiveShellPtyId(null)
BeforeRelease(calls, call) ==
    /\ PlaceOf(calls, call) > 0
    /\ PlaceOf(calls, call) < PlaceOf(calls, "setActiveShellPtyId")
\* execution e has completed as moved to the background
MovedToBackground(e) ==
    /\ exec[e].pc = "done"
    /\ exec[e].result.backgrounded /\ exec[e].result.pid # NoPid

\* C32: when a foreground execution completes with result.backgrounded, the
\* exit listener and the streaming listener of the registry for the pid are
\* installed before the foreground active pid is reset to null.
C32_ListenersBeforeRelease ==
    \A e \in Execs :
        MovedToBackground(e) =>
            /\ BeforeRelease(exec[e].branchCalls, "ShellExecutionService.onExit")
            /\ BeforeRelease(exec[e].branchCalls, "ShellExecutionService.subscribe")

\* C32, amended: the completion of a backgrounded execution puts the entry in
\* the registry, publishes the count, resets the foreground active pid and
\* then installs one exit listener for the pid, all in one step; it installs
\* no streaming listener.
C32_ReleaseThenExitListener ==
    [][\A e \in Execs :
          exec[e].pc = "running" /\ MovedToBackground(e)' =>
              LET pid   == exec'[e].result.pid
                  calls == exec'[e].branchCalls
              IN  /\ PlaceOf(calls, "backgroundShellsRef.current.set") = 1
                  /\ PlaceOf(calls, "setActiveShellPtyId") > 1
                  /\ PlaceOf(calls, "ShellExecutionService.onExit")
                         > PlaceOf(calls, "setActiveShellPtyId")
                  /\ PlaceOf(calls, "ShellExecutionService.subscribe") = 0
                  /\ MapHas(backgroundShells', pid)
                  /\ activeShellPtyId' = NoPid
                  /\ exitHooks' = [exitHooks EXCEPT ![pid] = @ + 1]
                  /\ regs' = regs]_vars

\* An execution was moved to the background: its entry is in the registry,
\* its exit listener is installed and the foreground owns no process.
C32_Witness ==
    \E e \in Execs :
        /\ MovedToBackground(e)
        /\ MapHas(backgroundShells, exec[e].result.pid)
        /\ exitHooks[exec[e].result.pid] = 1
        /\ regs[exec[e].result.pid] = 0
        /\ activeShellPtyId = NoPid

\* ------------------------------------------------------------- C33
\* listeners installed for a pid: onExit listeners, subscribe listeners
ExitListenerCount(pid)   == regs[pid] + exitHooks[pid]
StreamListenerCount(pid) == regs[pid]
\* the step puts an entry for the pid into a registry that had none
EntryCreated(pid) ==
    ~MapHas(backgroundShells, pid) /\ MapHas(backgroundShells', pid)

DataEvents == {ev \in StreamEvents : ev.type = "data"}
\* the output the callback of an execution has accumulated once it has
\* handled a data event
AccumulatedWith(x, chunk) ==
    IF x.isBinaryStream THEN x.cumulativeStdout
    ELSE IF interactive THEN chunk
    ELSE IF IsString(chunk) /\ IsString(x.cumulativeStdout)
    THEN Str(x.cumulativeStdout.v \o chunk.v)
    ELSE x.cumulativeStdout

\* C34: once a data event for a pid with an entry has been handled, by the
\* streaming listener of the registry or by the redirecting callback of the
\* foreground, the output of the entry is the chunk of the event.
C34_OutputIsLatestChunk ==
    [][\A ev \in DataEvents :
          /\ \A pid \in Pids :
                 subscribedEvent(pid, ev) /\ MapHas(backgroundShells, pid)
                     => MapGet(backgroundShells', pid).output = ev.chunk
          /\ \A e \in Execs :
                 onEvent(e, ev) /\ MapHas(backgroundShells, exec[e].executionPid)
                     => MapGet(backgroundShells', exec[e].executionPid).output = ev.chunk]_vars

\* C34, amended: the streaming listener of the registry replaces the output
\* of the entry by the chunk; the redirecting callback of the foreground
\* writes what the execution has accumulated, which is the chunk when the
\* interactive shell is enabled, the text so far followed by the chunk when
\* it is not, and what it was once the stream is binary.
C34_OutputPerHandler ==
    [][\A ev \in DataEvents :
          /\ \A pid \in Pids :
                 subscribedEvent(pid, ev) /\ MapHas(backgroundShells, pid)
                     => MapGet(backgroundShells', pid).output = ev.chunk
          /\ \A e \in Execs :
                 onEvent(e, ev) /\ MapHas(backgroundShells, exec[e].executionPid)
                     => MapGet(backgroundShells', exec[e].executionPid).output
                            = AccumulatedWith(exec[e], ev.chunk)]_vars

\* With the interactive shell disabled, the entry of a command that was moved
\* to the background holds two chunks; the entry of a tool's shell holds the
\* last chunk in place of its initial output.
C34_Witness ==
    /\ ~interactive
    /\ \E p, q \in Pids :
           /\ MapHas(backgroundShells, p) /\ MapHas(backgroundShells, q)
           /\ MapGet(backgroundShells, p).output = Str("aa")
           /\ regs[q] > 0 /\ MapGet(backgroundShells, q).output = Str("a")

\* ------------------------------------------------------------- C35
\* the entries of the registry whose status is 'running'
RunningEntries ==
    Cardinality({i \in 1..Len(backgroundShells) : backgroundShells[i].status = "running"})
\* the step registers, dismisses, handles the exit of a process or completes
\* an execution as moved to the background
RegistryStep ==
    \/ \E pid \in Pids, c \in Commands, o \in InitialOutputs :
           registerBackgroundShell(pid, c, o)
    \/ \E pid \in Pids : dismissBackgroundShell(pid)
    \/ \E pid \in Pids, code \in ExitEventCodes : processExit(pid, code)
    \/ \E e \in Execs : exec[e].pc = "running" /\ MovedToBackground(e)'

\* C35: after every step that registers, dismisses, handles an exit event or
\* completes an execution as moved to the background, the published count
\* backgroundShellCount is the number of entries whose status is 'running'.
C35_CountIsRunningEntries ==
    [][RegistryStep => backgroundShellCount' = RunningEntries']_vars

\* Of two entries one has exited, and the count is 1.
C35_Witness ==
    /\ Len(backgroundShells) = 2
    /\ \E i \in 1..2 : backgroundShells[i].status = "exited"
    /\ RunningEntries = 1
    /\ backgroundShellCount = 1

\* ------------------------------------------------------------- C36
\* C36: in every reachable state a visible background view implies a
\* registry that is not empty; toggleBackgroundShell flips the visibility
\* only when the registry has an entry, and with an empty registry leaves it
\* and adds the info item 'No background shells are currently active.';
\* dismissing the last entry sets the visibility to false.
C36_VisibleOnlyWithEntries ==
    /\ [](isBackgroundShellVisible => Len(backgroundShells) > 0)
    /\ [][toggleBackgroundShell =>
             IF Len(backgroundShells) > 0
             THEN /\ isBackgroundShellVisible' = ~isBackgroundShellVisible
                  /\ history' = history
             ELSE /\ UNCHANGED isBackgroundShellVisible
                  /\ CopiesIn(InfoItem, history') = CopiesIn(InfoItem, history) + 1]_vars
    /\ [][\A pid \in Pids :
             dismissBackgroundShell(pid) /\ MapKeys(backgroundShells) = {pid}
                 => ~isBackgroundShellVisible' /\ Len(backgroundShells') = 0]_vars

\* The view was visible, its last entry was dismissed and it is hidden; the
\* toggle of the empty registry then added the info item.
C36_Witness ==
    /\ Len(backgroundShells) = 0
    /\ ~isBackgroundShellVisible
    /\ \E pid \in Pids : regs[pid] > 0
    /\ CopiesIn(InfoItem, history) = 1

\* ------------------------------------------------------------- C37
\* the step delivers an exit event, a streaming event or an event of the
\* foreground callback for the pid
EventFor(pid) ==
    \/ \E code \in ExitEventCodes : processExit(pid, code)
    \/ \E ev \in StreamEvents : subscribedEvent(pid, ev)
    \/ \E e \in Execs, ev \in StreamEvents :
           exec[e].executionPid = pid /\ onEvent(e, ev)
\* the step is a registration of the pid or the completion of its execution
\* as moved to the background
Enters(pid) ==
    \/ \E c \in Commands, o \in InitialOutputs : registerBackgroundShell(pid, c, o)
    \/ \E e \in Execs :
           /\ exec[e].pc = "running" /\ MovedToBackground(e)'
           /\ exec'[e].result.pid = pid

\* C37: an event for a pid that has no entry, as after its dismissal, neither
\* creates an entry nor changes the registry or the running count; a pid
\* enters the registry only by registerBackgroundShell or by the completion
\* of its foreground execution with result.backgrounded.
C37_DismissedStaysOut ==
    [][\A pid \in Pids :
          /\ EventFor(pid) /\ ~MapHas(backgroundShells, pid)
                 => UNCHANGED <<backgroundShells, backgroundShellCount>>
          /\ EntryCreated(pid) => Enters(pid)]_vars

\* The entry of a tool's shell was dismissed while it ran, which killed the
\* process: its listeners are installed, its process has ended and it has no
\* entry, while another entry is still counted.
C37_Witness ==
    \E pid \in Pids :
        /\ regs[pid] > 0
        /\ proc[pid] = "tool ended"
        /\ ~MapHas(backgroundShells, pid)
        /\ Len(backgroundShells) = 1
        /\ backgroundShellCount = 1

\* ------------------------------------------------------------- C38
\* the final display of an execution is the Success message of the move of
\* the pid to the background
ShowsMoved(x, pid) ==
    /\ x.finalStatus = "Success"
    /\ x.finalOutput = "Command moved to background (PID: " \o ToString(pid)
                           \o "). Output hidden. Press Ctrl+B to view."

TerminalItemCount(e) == FinalItemCount(e) + ErrorItemCount(history, e)

\* C39: an execution of handleShellCommand adds at most one item to the UI
\* history after its user_shell item, the final tool_group item or the 'An
\* unexpected error occurred' item, never both and never two of either; it
\* adds none before it completes.
C39_AtMostOneTerminalItem ==
    \A e \in Execs :
        /\ TerminalItemCount(e) <= 1
        /\ exec[e].pc \in {"idle", "starting", "running"} => TerminalItemCount(e) = 0
        /\ exec[e].pc # "idle" =>
               CopiesIn(UserShellItem(e, exec[e].rawQuery), history) = 1

\* The marker file could not be read: the execution failed after its result
\* had resolved, and its one item is the error item.
C39_Witness ==
    /\ exec[1].pc = "failed"
    /\ exec[1].executionPid # NoPid
    /\ ErrorItemCount(history, 1) = 1
    /\ FinalItemCount(1) = 0
    /\ CopiesIn(ErrorItem(1, "EACCES"), history) = 1

\* ------------------------------------------------------------------ C40
\* C40: the hook status text shows a prefix of the active hooks. For a
\* non-empty list the first hook is always shown; each further hook is
\* shown only if the running character count plus its name length plus 2
\* does not exceed the width budget (80% of the terminal width in
\* HookStatusDisplay, 40% in ContextSummaryDisplay); the number shown plus
\* the hidden count equals the total; the "... (+N more)" suffix appears
\* if and only if N > 0; and an empty list renders nothing.
\* (ContextSummaryDisplay computes the text for the active hooks only while
\* notifications are shown.)
LabelLength(hooks) == IF Len(hooks) > 1 THEN Len("Executing Hooks") ELSE Len("Executing Hook")
RECURSIVE RunningCount(_, _, _)
RunningCount(hooks, k, overhead) ==
    IF k = 0 THEN LabelLength(hooks) + overhead
    ELSE RunningCount(hooks, k - 1, overhead) + Len(hookDisplayName(hooks[k])) + 2
MoreSuffix(n) == "... (+" \o ToString(n) \o " more)"
HasMoreSuffix(text) == \E n \in 0..MaxHooks : EndsWith(text, MoreSuffix(n))
ShowsPrefix(text, hooks, width, overhead, tenths) ==
    IF Len(hooks) = 0
    THEN text.result = "" /\ text.displayedHooks = <<>>
    ELSE /\ Len(text.displayedHooks) >= 1
         /\ Len(text.displayedHooks) <= Len(hooks)
         /\ \A k \in 1..Len(text.displayedHooks) :
                /\ text.displayedHooks[k] = hookDisplayName(hooks[k])
                /\ k > 1 => /\ RunningCount(hooks, k - 1, overhead)
                                 + Len(hookDisplayName(hooks[k])) + 2 <= (width * tenths) \div 10
                            /\ RunningCount(hooks, k - 1, overhead)
                                 + Len(hooks[k].name) + 2 <= (width * tenths) \div 10
         /\ Len(text.displayedHooks) + text.hiddenCount = Len(hooks)
         /\ HasMoreSuffix(text.result) <=> text.hiddenCount > 0
         /\ text.hiddenCount > 0 => EndsWith(text.result, MoreSuffix(text.hiddenCount))
C40_HookTextShowsPrefix ==
    /\ hookStatus # NotRendered
           => ShowsPrefix(hookStatus, activeHooks, terminalWidth, 2, 8)
    /\ (contextSummary # NotRendered /\ showNotifications)
           => ShowsPrefix(contextSummary, activeHooks, terminalWidth, 4, 4)
C40_Witness ==
    /\ Len(activeHooks) = MaxHooks
    /\ showNotifications
    /\ hookStatus # NotRendered /\ contextSummary # NotRendered
    /\ Len(hookStatus.displayedHooks) = 2 /\ hookStatus.hiddenCount = 1
    /\ Len(contextSummary.displayedHooks) = 1 /\ contextSummary.hiddenCount = 2
    /\ RunningCount(activeHooks, 0, 4) + Len(hookDisplayName(activeHooks[1])) + 2
           > (terminalWidth * 4) \div 10
====
